---- MODULE Spec2Model ----
(***************************************************************************)
(* Listing synchronisation and reconciliation engine of the multi-platform *)
(* CRM: the store (products, platform listings, sales), the SyncService    *)
(* coroutines and the FastAPI endpoints that drive them.                   *)
(*                                                                         *)
(* A request is a task.  An async handler runs atomically from one await   *)
(* of an adapter operation to the next (asyncio, one event loop), so each  *)
(* action below is the code between two awaits.  Endpoints declared with   *)
(* plain def (product and inventory CRUD) are single atomic actions.       *)
(* Query results are taken in primary-key order.                           *)
(***************************************************************************)
EXTENDS Integers, Sequences, FiniteSets, TLC

\* ---------------------------------------------------------------- bounds
MaxProducts == 2
NumPlatforms == 2
MaxExtId == 2
MaxPrice == 1
MaxDate == 2
MaxImport == 2
MaxCrossPost == 2
MaxRequests == 3
MaxTasks == 2
MaxSalePrice == 2

\* ------------------------------------------------------------- constants
None == 0
NoError == "None"
\* the members of enum Platform, the browser-backed adapters first
PlatformOrder == <<"vinted", "depop", "marktplaats", "facebook_marketplace">>
Platform == {PlatformOrder[i] : i \in 1..4}
\* the adapters that hold a browser, in the order cleanup closes them
CloseOrder == <<"vinted", "depop", "facebook_marketplace">>
BrowserPlatforms == {CloseOrder[i] : i \in 1..3}
ProductStatus == {"active", "posted", "sold", "pending", "inactive"}
PlatformStatus == {"active", "sold", "pending", "deleted", "error"}

\* the platforms, prices, dates and external ids the requests are drawn from
Platforms == {PlatformOrder[i] : i \in 1..(IF NumPlatforms < 4 THEN NumPlatforms ELSE 4)}
Prices == 1..MaxPrice
SalePrices == 1..MaxSalePrice
Dates == 1..MaxDate
ExtIds == 1..MaxExtId
Tasks == 1..MaxTasks
UpdateStatuses == {"active", "sold", "inactive"}

VARIABLES
    products,    \* table products: sequence indexed by Product.id
    listings,    \* table platform_listings: sequence indexed by PlatformListing.id
    sales,       \* table sales: sequence indexed by Sale.id
    external,    \* per platform, the listing ids that exist on the marketplace
    sheetRows,   \* number of rows of the "Sales" worksheet (0: not created yet)
    tasks,       \* the in-flight requests, one SyncService each
    nreq,        \* number of requests received so far
    failed       \* history: the (product, platform) pairs whose last push failed

vars == <<products, listings, sales, external, sheetRows, tasks, nreq, failed>>

\* ---------------------------------------------------------------- helpers
Min(S) == CHOOSE m \in S : \A n \in S : m <= n

\* the elements of a set of naturals in ascending order
RECURSIVE SortedSeq(_)
SortedSeq(S) == IF S = {} THEN <<>> ELSE <<Min(S)>> \o SortedSeq(S \ {Min(S)})

Range(s) == {s[i] : i \in 1..Len(s)}

NoSaleData == [present |-> FALSE, platform |-> "", sale_price |-> None, sale_date |-> None]
NoResults == [x \in Platforms |-> [present |-> FALSE, listing |-> None]]
NoRow == [product_id |-> None, platform |-> "", platform_listing_id |-> None,
          platform_status |-> "", needs_sync |-> FALSE, sync_error |-> NoError]

\* what is left at the id of a deleted product, listing or sale: ids are
\* not given again
NoProduct == [status |-> "", price |-> None]
NoSale == [product_id |-> None, platform |-> "", sale_price |-> None,
           sale_date |-> None, shipping_cost |-> 0, platform_fee |-> 0,
           payment_fee |-> 0, net_profit |-> None, synced_to_sheets |-> FALSE,
           sheets_row_number |-> None]

\* db.query(Product).filter(Product.id == p).first() finds a product
Exists(ps, p) == p \in 1..Len(ps) /\ ps[p] # NoProduct

IdleTask == [pc |-> "idle", op |-> "none", pid |-> None, plat |-> "",
             platforms |-> <<>>, plats |-> <<>>, existing |-> None,
             loaded |-> NoRow, path |-> "",
             rows |-> <<>>, selected |-> <<>>, prods |-> <<>>, results |-> NoResults, ret |-> None,
             ok |-> FALSE,
             mdata |-> NoSaleData, mrows |-> <<>>, msold |-> {},
             sold_items |-> <<>>, imported |-> <<>>, calls |-> <<>>,
             sales0 |-> 0,
             browser |-> {}, page |-> {}, is_authenticated |-> {},
             closing |-> <<>>, close_error |-> "",
             aop |-> "", aplat |-> "", auth |-> "", acted |-> FALSE, aret |-> "",
             error |-> "", commit_failed |-> FALSE, inflight |-> <<>>,
             fetched |-> <<>>, sale_id |-> 0, rolled_back |-> FALSE]

\* the store and one task, threaded through the coroutine bodies
World(t) == [products |-> products, listings |-> listings, sales |-> sales,
             external |-> external, sheetRows |-> sheetRows, failed |-> failed,
             tk |-> tasks[t]]

Commit(t, w) ==
    /\ products' = w.products
    /\ listings' = w.listings
    /\ sales' = w.sales
    /\ external' = w.external
    /\ sheetRows' = w.sheetRows
    /\ failed' = w.failed
    /\ tasks' = [tasks EXCEPT ![t] = w.tk]

\* ------------------------------------------------------------ the session
\* SQLAlchemy flushes only the attributes whose value differs from the one
\* the object was loaded with: cur is the stored row, loaded the row as the
\* session read it, obj the object after the handler's assignments.
Flush(cur, loaded, obj) ==
    [c \in DOMAIN cur |-> IF obj[c] = loaded[c] THEN cur[c] ELSE obj[c]]

\* db.query(PlatformListing).filter(product_id == p, platform == x).first()
FirstListing(ls, p, x) ==
    LET S == {i \in 1..Len(ls) : ls[i].product_id = p /\ ls[i].platform = x}
    IN IF S = {} THEN None ELSE Min(S)

\* the id the marketplace gives to a listing it creates (None: none left)
FreshId(w, x) ==
    IF ExtIds \ w.external[x] = {} THEN None ELSE Min(ExtIds \ w.external[x])

\* the adapter calls in progress of a service, by adapter, once the call of
\* adapter x that was begun first has returned or raised
RECURSIVE Returned(_, _)
Returned(s, x) ==
    IF s = <<>> THEN <<>>
    ELSE IF Head(s) = x THEN Tail(s)
    ELSE <<Head(s)>> \o Returned(Tail(s), x)

Call(name, p, x, id) == [op |-> name, pid |-> p, platform |-> x, id |-> id]

\* _init_browser: the first operation on a browser-backed adapter launches
\* its browser and opens its page; b is the set of adapters of the service
\* holding one (a launch that fails and the outcome of the login are followed
\* in SpecAdapter only)
InitBrowser(b, x) == IF x \in BrowserPlatforms THEN b \cup {x} ELSE b

\* ------------------------------------------- sync_product_to_platform
\* variant of sync_begin that takes the create path whatever is stored
sync_begin_always_creates(w, p, x) ==
    LET e == FirstListing(w.listings, p, x)
        row == IF e = None THEN NoRow ELSE w.listings[e]
    IN [w EXCEPT !.tk.pc = "sync_await", !.tk.pid = p, !.tk.plat = x,
                 !.tk.existing = e, !.tk.loaded = row,
                 !.tk.path = "create",
                 !.tk.browser = InitBrowser(@, x), !.tk.page = InitBrowser(@, x),
                 !.tk.inflight = Append(@, x),
                 !.tk.calls = Append(@, Call("create_listing", p, x,
                                             row.platform_listing_id))]

\* lines 48-76/90: look the listing up, choose the path, await the adapter
sync_begin(w, p, x) ==
    LET e == FirstListing(w.listings, p, x)
        row == IF e = None THEN NoRow ELSE w.listings[e]
        upd == e # None /\ row.platform_listing_id # None
    IN [w EXCEPT !.tk.pc = "sync_await", !.tk.pid = p, !.tk.plat = x,
                 !.tk.existing = e, !.tk.loaded = row,
                 !.tk.path = IF upd THEN "update" ELSE "create",
                 !.tk.browser = InitBrowser(@, x), !.tk.page = InitBrowser(@, x),
                 !.tk.inflight = Append(@, x),
                 !.tk.calls = Append(@, Call(IF upd THEN "update_listing"
                                                     ELSE "create_listing",
                                             p, x, row.platform_listing_id))]

\* variant of sync_update_end that forgets line 81 (sync_error = None)
sync_update_end_keeps_error(w, success) ==
    LET e == w.tk.existing
        obj == IF success
               THEN [w.tk.loaded EXCEPT !.needs_sync = FALSE]
               ELSE [w.tk.loaded EXCEPT !.sync_error = "Failed to update listing"]
    IN [w EXCEPT !.listings[e] = Flush(@, w.tk.loaded, obj),
                 !.tk.ret = IF success THEN e ELSE None]

\* lines 78-87: update_listing returned success or failure
sync_update_end(w, success) ==
    LET e == w.tk.existing
        obj == IF success
               THEN [w.tk.loaded EXCEPT !.needs_sync = FALSE, !.sync_error = NoError]
               ELSE [w.tk.loaded EXCEPT !.sync_error = "Failed to update listing"]
    IN [w EXCEPT !.listings[e] = Flush(@, w.tk.loaded, obj),
                 !.tk.ret = IF success THEN e ELSE None]

\* variant of sync_create_end that also sets the product's status to POSTED
\* when the listing was created
sync_create_end_posts(w, platform_listing_id) ==
    LET e == w.tk.existing
        x == w.tk.plat
    IN IF platform_listing_id # None
       THEN IF e # None
            THEN LET obj == [w.tk.loaded EXCEPT
                                !.platform_listing_id = platform_listing_id,
                                !.needs_sync = FALSE, !.sync_error = NoError]
                 IN [w EXCEPT !.listings[e] = Flush(@, w.tk.loaded, obj),
                              !.products[w.tk.pid].status = "posted",
                              !.external[x] = @ \cup {platform_listing_id},
                              !.tk.ret = e]
            ELSE [w EXCEPT !.listings = Append(@,
                                [product_id |-> w.tk.pid, platform |-> x,
                                 platform_listing_id |-> platform_listing_id,
                                 platform_status |-> "active",
                                 needs_sync |-> FALSE, sync_error |-> NoError]),
                           !.products[w.tk.pid].status = "posted",
                           !.external[x] = @ \cup {platform_listing_id},
                           !.tk.ret = Len(w.listings) + 1]
       ELSE IF e # None
            THEN LET obj == [w.tk.loaded EXCEPT !.sync_error = "Failed to create listing"]
                 IN [w EXCEPT !.listings[e] = Flush(@, w.tk.loaded, obj),
                              !.tk.ret = None]
            ELSE [w EXCEPT !.tk.ret = None]

\* lines 92-115: create_listing returned an id (None: no id)
sync_create_end(w, platform_listing_id) ==
    LET e == w.tk.existing
        x == w.tk.plat
    IN IF platform_listing_id # None
       THEN IF e # None
            THEN LET obj == [w.tk.loaded EXCEPT
                                !.platform_listing_id = platform_listing_id,
                                !.needs_sync = FALSE, !.sync_error = NoError]
                 IN [w EXCEPT !.listings[e] = Flush(@, w.tk.loaded, obj),
                              !.external[x] = @ \cup {platform_listing_id},
                              !.tk.ret = e]
            ELSE [w EXCEPT !.listings = Append(@,
                                [product_id |-> w.tk.pid, platform |-> x,
                                 platform_listing_id |-> platform_listing_id,
                                 platform_status |-> "active",
                                 needs_sync |-> FALSE, sync_error |-> NoError]),
                           !.external[x] = @ \cup {platform_listing_id},
                           !.tk.ret = Len(w.listings) + 1]
       ELSE IF e # None
            THEN LET obj == [w.tk.loaded EXCEPT !.sync_error = "Failed to create listing"]
                 IN [w EXCEPT !.listings[e] = Flush(@, w.tk.loaded, obj),
                              !.tk.ret = None]
            ELSE [w EXCEPT !.tk.ret = None]

\* variant of sync_except that also clears needs_sync
sync_except_clears(w) ==
    LET e == w.tk.existing
        obj == [w.tk.loaded EXCEPT !.sync_error = "exception", !.needs_sync = FALSE]
    IN IF e # None
       THEN [w EXCEPT !.listings[e] = Flush(@, w.tk.loaded, obj), !.tk.ret = None]
       ELSE [w EXCEPT !.tk.ret = None]

\* lines 117-122: the adapter raised
sync_except(w) ==
    LET e == w.tk.existing
        obj == [w.tk.loaded EXCEPT !.sync_error = "exception"]
    IN IF e # None
       THEN [w EXCEPT !.listings[e] = Flush(@, w.tk.loaded, obj), !.tk.ret = None]
       ELSE [w EXCEPT !.tk.ret = None]

\* variant of sync_end that gives the record of a failed push the status ERROR
sync_end_marks_error(w, outcome) ==
    LET w1 == IF outcome = "raise" THEN sync_except(w)
              ELSE IF w.tk.path = "update" THEN sync_update_end(w, outcome = "ok")
              ELSE sync_create_end(w, IF outcome = "ok" THEN FreshId(w, w.tk.plat)
                                                        ELSE None)
        pair == <<w.tk.pid, w.tk.plat>>
        w2 == IF w1.tk.ret = None /\ w.tk.existing # None
              THEN [w1 EXCEPT !.listings[w.tk.existing].platform_status = "error"]
              ELSE w1
    IN [w2 EXCEPT !.failed = IF w1.tk.ret = None THEN @ \cup {pair} ELSE @ \ {pair},
                  !.tk.inflight = Returned(@, w.tk.plat)]

\* lines 70-122 after the await; outcome is the adapter's: "ok", "fail", "raise"
sync_end(w, outcome) ==
    LET w1 == IF outcome = "raise" THEN sync_except(w)
              ELSE IF w.tk.path = "update" THEN sync_update_end(w, outcome = "ok")
              ELSE sync_create_end(w, IF outcome = "ok" THEN FreshId(w, w.tk.plat)
                                                        ELSE None)
        pair == <<w.tk.pid, w.tk.plat>>
    IN [w1 EXCEPT !.failed = IF w1.tk.ret = None THEN @ \cup {pair} ELSE @ \ {pair},
                  !.tk.inflight = Returned(@, w.tk.plat)]

\* lines 70-122 after the await when the first db.commit() the handler
\* reaches raises: the session rolls the transaction back, so nothing of the
\* attempt is stored, while a listing that was created stays on the
\* marketplace.  A commit inside the try is caught at line 117: the except
\* branch writes sync_error and commits once more, and the handler returns
\* None; again: that second commit raises too.  The commit of line 121 itself
\* (the adapter raised) or the second one raising leaves the handler and the
\* service call as an exception.
sync_commit_fails(w, outcome, again) ==
    LET e == w.tk.existing
        x == w.tk.plat
        pair == <<w.tk.pid, x>>
        w1 == [w EXCEPT !.external[x] =
                            IF outcome = "ok" /\ w.tk.path = "create"
                            THEN @ \cup {FreshId(w, x)} ELSE @,
                        !.failed = @ \cup {pair},
                        !.tk.inflight = Returned(@, x),
                        !.tk.ret = None, !.tk.commit_failed = TRUE]
    IN IF outcome = "raise" \/ again
       THEN [w1 EXCEPT !.tk.pc = "done", !.tk.error = "commit"]
       ELSE IF e # None
       THEN [w1 EXCEPT !.listings[e].sync_error = "exception"]
       ELSE w1

\* cross_post_product, lines 132-138: the loop from one await to the next
cross_post_next(w) ==
    IF w.tk.plats = <<>>
    THEN [w EXCEPT !.tk.pc = "done"]
    ELSE sync_begin(w, w.tk.pid, Head(w.tk.plats))

cross_post_product(w, p, platforms) ==
    cross_post_next([w EXCEPT !.tk.pid = p, !.tk.platforms = platforms,
                              !.tk.plats = platforms, !.tk.results = NoResults])

\* sync_all_products, lines 279-285
sync_all_next(w) ==
    IF w.tk.rows = <<>>
    THEN [w EXCEPT !.tk.pc = "done"]
    ELSE LET l == w.listings[Head(w.tk.rows)]
         IN IF Exists(w.products, l.product_id)
            THEN sync_begin(w, l.product_id, l.platform)
            \* listing.product is None: product.id at line 54 raises
            ELSE [w EXCEPT !.tk.pc = "done", !.tk.error = "AttributeError"]

\* variant of sync_all_products without the filter of line 280
sync_all_products_unfiltered(w) ==
    LET all == SortedSeq(1..Len(w.listings))
    IN sync_all_next([w EXCEPT !.tk.selected = all, !.tk.rows = all])

\* selected is the list the query of lines 279-281 returned, rows what is
\* left of it to loop over
sync_all_products(w) ==
    LET flagged == SortedSeq({i \in 1..Len(w.listings) : w.listings[i].needs_sync})
    IN sync_all_next([w EXCEPT !.tk.selected = flagged, !.tk.rows = flagged])

\* variant of sync_return in which cross_post_product gives up at the first
\* platform whose sync returned None
sync_return_aborts(w) ==
    CASE w.tk.op = "cross" ->
            IF w.tk.ret = None
            THEN [w EXCEPT !.tk.pc = "done"]
            ELSE cross_post_next([w EXCEPT
                    !.tk.results[w.tk.plat] = [present |-> TRUE, listing |-> w.tk.ret],
                    !.tk.plats = Tail(@)])
      [] w.tk.op = "all" -> sync_all_next([w EXCEPT !.tk.rows = Tail(@)])
      [] OTHER -> [w EXCEPT !.tk.pc = "done"]

\* where sync_product_to_platform returns to
sync_return(w) ==
    CASE w.tk.op = "cross" ->
            cross_post_next([w EXCEPT
                !.tk.results[w.tk.plat] = [present |-> TRUE, listing |-> w.tk.ret],
                !.tk.plats = Tail(@)])
      [] w.tk.op = "all" -> sync_all_next([w EXCEPT !.tk.rows = Tail(@)])
      [] OTHER -> [w EXCEPT !.tk.pc = "done"]

\* ------------------------------------------------------------ sales
\* Sale.calculate_net_profit
calculate_net_profit(sale, original_cost) ==
    [sale EXCEPT !.net_profit = sale.sale_price - sale.shipping_cost
                                - sale.platform_fee - sale.payment_fee - original_cost]

\* variant of sync_sale_to_sheets that writes the original_cost of line 207
\* back into the sale it exports
sync_sale_to_sheets_recomputed(w, sale_id, sheet) ==
    LET row_number == IF w.sheetRows = 0 THEN 2 ELSE w.sheetRows + 1
    IN CASE sheet = "row" ->
               [w EXCEPT !.sheetRows = row_number,
                         !.sales[sale_id].synced_to_sheets = TRUE,
                         !.sales[sale_id].sheets_row_number = row_number,
                         !.sales[sale_id].net_profit = 0]
         [] sheet = "lost" -> [w EXCEPT !.sheetRows = row_number]
         [] OTHER -> w

\* variant of sync_sale_to_sheets that marks the sale without looking at the
\* row number add_sale returned
sync_sale_to_sheets_unchecked(w, sale_id, sheet) ==
    LET row_number == IF w.sheetRows = 0 THEN 2 ELSE w.sheetRows + 1
    IN CASE sheet = "row" ->
               [w EXCEPT !.sheetRows = row_number,
                         !.sales[sale_id].synced_to_sheets = TRUE,
                         !.sales[sale_id].sheets_row_number = row_number]
         [] sheet = "lost" ->
               [w EXCEPT !.sheetRows = row_number,
                         !.sales[sale_id].synced_to_sheets = TRUE]
         [] OTHER -> [w EXCEPT !.sales[sale_id].synced_to_sheets = TRUE]

\* sync_sale_to_sheets with GoogleSheetsService.add_sale: sheet = "row" when
\* the row was appended and counted, "lost" when it was appended and the
\* count of line 104 raised (add_sale returns None), "none" when nothing was
\* appended and add_sale returned None
sync_sale_to_sheets(w, sale_id, sheet) ==
    LET row_number == IF w.sheetRows = 0 THEN 2 ELSE w.sheetRows + 1
    IN CASE sheet = "row" ->
               [w EXCEPT !.sheetRows = row_number,
                         !.sales[sale_id].synced_to_sheets = TRUE,
                         !.sales[sale_id].sheets_row_number = row_number]
         [] sheet = "lost" -> [w EXCEPT !.sheetRows = row_number]
         [] OTHER -> w

\* ------------------------------------------------- check_for_sold_items
\* listings of product p that are ACTIVE (lines 241-244) and pass line 248
PollableListings(ls, p) ==
    SortedSeq({i \in 1..Len(ls) : /\ ls[i].product_id = p
                                  /\ ls[i].platform_status = "active"
                                  /\ ls[i].platform_listing_id # None})

\* lines 240-252: run the two loops up to the next check_listing_status
RECURSIVE check_next(_)
check_next(w) ==
    IF w.tk.rows # <<>>
    THEN LET l == w.listings[Head(w.tk.rows)]
         IN [w EXCEPT !.tk.pc = "check_await",
                      !.tk.browser = InitBrowser(@, l.platform),
                      !.tk.page = InitBrowser(@, l.platform),
                      !.tk.inflight = Append(@, l.platform),
                      !.tk.calls = Append(@, Call("check_listing_status", w.tk.pid,
                                                  l.platform, l.platform_listing_id))]
    ELSE IF w.tk.prods = <<>>
    THEN [w EXCEPT !.tk.pc = "done"]
    ELSE check_next([w EXCEPT !.tk.pid = Head(w.tk.prods),
                              !.tk.prods = Tail(@),
                              !.tk.rows = PollableListings(w.listings, Head(w.tk.prods))])

check_for_sold_items(w) ==
    check_next([w EXCEPT !.tk.sold_items = <<>>, !.tk.rows = <<>>,
                         !.tk.prods = SortedSeq({p \in 1..Len(w.products) :
                                                    w.products[p].status = "active"})])

\* ------------------------------------------------- mark_product_as_sold
\* variant of mark_return without the break of line 268
mark_return_no_break(w, result) ==
    IF w.tk.op = "check"
    THEN check_next([w EXCEPT !.tk.sold_items = Append(@, w.tk.pid),
                              !.tk.rows = Tail(@)])
    ELSE [w EXCEPT !.tk.pc = "done", !.tk.ok = result]

\* where mark_product_as_sold returns to: its endpoint, or lines 262-268 of
\* check_for_sold_items (report the product, leave the listing loop)
mark_return(w, result) ==
    IF w.tk.op = "check"
    THEN check_next([w EXCEPT !.tk.sold_items = Append(@, w.tk.pid),
                              !.tk.rows = <<>>])
    ELSE [w EXCEPT !.tk.pc = "done", !.tk.ok = result]

\* variant of mark_finish that gives the sale up when its export fails
mark_finish_rollback(w, sheet) ==
    LET d == w.tk.mdata
        w1 == [w EXCEPT !.listings = [i \in 1..Len(w.listings) |->
                            IF i \in w.tk.msold
                            THEN [w.listings[i] EXCEPT !.platform_status = "sold"]
                            ELSE w.listings[i]]]
        sale == calculate_net_profit(
                    [product_id |-> w.tk.pid, platform |-> d.platform,
                     sale_price |-> d.sale_price, sale_date |-> d.sale_date,
                     shipping_cost |-> 0, platform_fee |-> 0, payment_fee |-> 0,
                     net_profit |-> None, synced_to_sheets |-> FALSE,
                     sheets_row_number |-> None], 0)
        w2 == IF d.present /\ sheet = "row"
              THEN sync_sale_to_sheets([w1 EXCEPT !.sales = Append(@, sale)],
                                       Len(w1.sales) + 1, sheet)
              ELSE w1
    IN mark_return(w2, sheet = "row")

\* lines 172-197: commit the listing statuses, record the sale, export it
mark_finish(w, sheet) ==
    LET d == w.tk.mdata
        w1 == [w EXCEPT !.listings = [i \in 1..Len(w.listings) |->
                            IF i \in w.tk.msold
                            THEN [w.listings[i] EXCEPT !.platform_status = "sold"]
                            ELSE w.listings[i]]]
        sale == calculate_net_profit(
                    [product_id |-> w.tk.pid, platform |-> d.platform,
                     sale_price |-> d.sale_price, sale_date |-> d.sale_date,
                     shipping_cost |-> 0, platform_fee |-> 0, payment_fee |-> 0,
                     net_profit |-> None, synced_to_sheets |-> FALSE,
                     sheets_row_number |-> None], 0)
        w2 == IF d.present
              THEN sync_sale_to_sheets([w1 EXCEPT !.sales = Append(@, sale)],
                                       Len(w1.sales) + 1, sheet)
              ELSE w1
    IN mark_return(w2, TRUE)

\* lines 163-167: the loop up to the next mark_as_sold
mark_next(w, sheet) ==
    IF w.tk.mrows = <<>>
    THEN mark_finish(w, sheet)
    ELSE LET l == w.listings[Head(w.tk.mrows)]
         IN [w EXCEPT !.tk.pc = "mark_await",
                      !.tk.browser = InitBrowser(@, l.platform),
                      !.tk.page = InitBrowser(@, l.platform),
                      !.tk.inflight = Append(@, l.platform),
                      !.tk.calls = Append(@, Call("mark_as_sold", w.tk.pid,
                                                  l.platform, l.platform_listing_id))]

\* variant of mark_product_as_sold without line 154 (status = SOLD)
mark_product_as_sold_keeps_status(w, product_id, sale_data, sheet) ==
    IF ~Exists(w.products, product_id)
    THEN mark_return(w, FALSE)
    ELSE mark_next([w EXCEPT
            !.tk.pid = product_id, !.tk.mdata = sale_data, !.tk.msold = {},
            !.tk.calls = Append(@, Call("mark_product_as_sold", product_id,
                                        sale_data.platform, None)),
            !.tk.mrows = SortedSeq({i \in 1..Len(w.listings) :
                                      /\ w.listings[i].product_id = product_id
                                      /\ w.listings[i].platform_listing_id # None})],
            sheet)

\* lines 149-165
mark_product_as_sold(w, product_id, sale_data, sheet) ==
    IF ~Exists(w.products, product_id)
    THEN mark_return(w, FALSE)
    ELSE mark_next([w EXCEPT
            !.products[product_id].status = "sold",
            !.tk.pid = product_id, !.tk.mdata = sale_data, !.tk.msold = {},
            !.tk.calls = Append(@, Call("mark_product_as_sold", product_id,
                                        sale_data.platform, None)),
            !.tk.mrows = SortedSeq({i \in 1..Len(w.listings) :
                                      /\ w.listings[i].product_id = product_id
                                      /\ w.listings[i].platform_listing_id # None})],
            sheet)

\* lines 166-170: mark_as_sold returned ("ok", "fail") or raised ("raise")
mark_as_sold_end(w, outcome, sheet) ==
    mark_next([w EXCEPT !.tk.msold = IF outcome = "raise" THEN @
                                     ELSE @ \cup {Head(w.tk.mrows)},
                        !.tk.inflight =
                            Returned(@, w.listings[Head(w.tk.mrows)].platform),
                        !.tk.mrows = Tail(@)], sheet)

\* variant of check_status_end that takes the price of the first product
check_status_end_first_price(w, status, date, sheet) ==
    LET l == w.listings[Head(w.tk.rows)]
        w0 == [w EXCEPT !.tk.inflight = Returned(@, l.platform)]
    IN IF status = "sold"
       THEN mark_product_as_sold(w0, w.tk.pid,
                [present |-> TRUE, platform |-> l.platform,
                 sale_price |-> w.products[1].price, sale_date |-> date],
                sheet)
       ELSE check_next([w0 EXCEPT !.tk.rows = Tail(@)])

\* lines 252-271: check_listing_status returned status (or raised: "raise")
check_status_end(w, status, date, sheet) ==
    LET l == w.listings[Head(w.tk.rows)]
        w0 == [w EXCEPT !.tk.inflight = Returned(@, l.platform)]
    IN IF status = "sold"
       THEN mark_product_as_sold(w0, w.tk.pid,
                [present |-> TRUE, platform |-> l.platform,
                 sale_price |-> w.products[w.tk.pid].price, sale_date |-> date],
                sheet)
       ELSE check_next([w0 EXCEPT !.tk.rows = Tail(@)])

\* ------------------------------------------------- import_from_platform
\* variant of import_loop without the lookup of lines 302-308
RECURSIVE import_loop_no_lookup(_, _)
import_loop_no_lookup(w, lst) ==
    IF lst = <<>> THEN w
    ELSE LET d == Head(lst)
             x == w.tk.plat
             pid == Len(w.products) + 1
         IN import_loop_no_lookup(
                   [w EXCEPT
                      !.products = Append(@, [status |-> "active", price |-> d.price]),
                      !.listings = Append(@, [product_id |-> pid, platform |-> x,
                                              platform_listing_id |-> d.id,
                                              platform_status |-> "active",
                                              needs_sync |-> FALSE,
                                              sync_error |-> NoError]),
                      !.tk.imported = Append(@, pid)],
                   Tail(lst))

\* lines 300-338: the loop over the adapter's listing summaries
RECURSIVE import_loop(_, _)
import_loop(w, lst) ==
    IF lst = <<>> THEN w
    ELSE LET d == Head(lst)
             x == w.tk.plat
             existing_listing ==
                 \E i \in 1..Len(w.listings) :
                     /\ w.listings[i].platform = x
                     /\ w.listings[i].platform_listing_id = d.id
             pid == Len(w.products) + 1
         IN IF existing_listing
            THEN import_loop(w, Tail(lst))
            ELSE import_loop(
                   [w EXCEPT
                      !.products = Append(@, [status |-> "active", price |-> d.price]),
                      !.listings = Append(@, [product_id |-> pid, platform |-> x,
                                              platform_listing_id |-> d.id,
                                              platform_status |-> "active",
                                              needs_sync |-> FALSE,
                                              sync_error |-> NoError]),
                      !.tk.imported = Append(@, pid)],
                   Tail(lst))

\* lines 298-346 after get_listings returned lst
import_end(w, lst) ==
    LET w1 == import_loop([w EXCEPT !.tk.imported = <<>>, !.tk.fetched = lst], lst)
    IN [w1 EXCEPT !.tk.pc = "done",
                  !.tk.inflight = Returned(@, w.tk.plat),
                  !.external[w.tk.plat] = @ \cup ({lst[i].id : i \in 1..Len(lst)} \ {None})]

\* lines 298-346 after get_listings returned lst, when the flush of the
\* product of summary k raises (line 324), or the commit of line 340 for
\* k = Len(lst) + 1: the except branch rolls the transaction back and the
\* products appended to imported_products so far are returned
import_fails(w, lst, k) ==
    LET w1 == import_loop([w EXCEPT !.tk.imported = <<>>], SubSeq(lst, 1, k - 1))
    IN [w EXCEPT !.tk.pc = "done",
                 !.tk.fetched = lst,
                 !.tk.imported = w1.tk.imported,
                 !.tk.rolled_back = TRUE,
                 !.tk.inflight = Returned(@, w.tk.plat),
                 !.external[w.tk.plat] = @ \cup ({lst[i].id : i \in 1..Len(lst)} \ {None})]

\* ---------------------------------------------------------------- cleanup
\* SyncService.cleanup, lines 350-352: close vinted, depop and facebook in
\* turn; close() of an adapter without a browser returns at once
RECURSIVE cleanup_next(_)
cleanup_next(w) ==
    IF w.tk.closing = <<>>
    THEN [w EXCEPT !.tk.pc = "closed"]
    ELSE IF Head(w.tk.closing) \in w.tk.browser
    THEN [w EXCEPT !.tk.pc = "close_await",
                   !.tk.inflight = Append(@, Head(w.tk.closing))]
    ELSE cleanup_next([w EXCEPT !.tk.closing = Tail(@)])

\* variant of close_end that drops the browser and keeps the page
close_end_keeps_page(w, outcome) ==
    IF outcome = "ok"
    THEN cleanup_next([w EXCEPT !.tk.browser = @ \ {Head(w.tk.closing)},
                                !.tk.inflight = Returned(@, Head(w.tk.closing)),
                                !.tk.closing = Tail(@)])
    ELSE [w EXCEPT !.tk.pc = "closed", !.tk.close_error = Head(w.tk.closing),
                   !.tk.inflight = Returned(@, Head(w.tk.closing))]

\* the adapter's close(): browser.close() returned ("ok": the browser and the
\* page are dropped) or raised ("raise": the exception leaves cleanup)
close_end(w, outcome) ==
    IF outcome = "ok"
    THEN cleanup_next([w EXCEPT !.tk.browser = @ \ {Head(w.tk.closing)},
                                !.tk.page = @ \ {Head(w.tk.closing)},
                                !.tk.inflight = Returned(@, Head(w.tk.closing)),
                                !.tk.closing = Tail(@)])
    ELSE [w EXCEPT !.tk.pc = "closed", !.tk.close_error = Head(w.tk.closing),
                   !.tk.inflight = Returned(@, Head(w.tk.closing))]

\* ------------------------------------------------------------ the adapters
\* the operations of a platform adapter other than authenticate and close
AdapterOps == {"get_listings", "create_listing", "update_listing", "delete_listing",
               "mark_as_sold", "get_sales", "check_listing_status"}

\* what a run of authenticate of a browser-backed adapter can come to:
\* "nolaunch" (playwright or the launch raised), "nopage" (new_page raised),
\* "error" (a page action raised), "rejected" (the page is still the login
\* page), "accepted"
Logins == {"nolaunch", "nopage", "error", "rejected", "accepted"}

\* authenticate of a browser-backed adapter with _init_browser: the browser
\* is launched only when the adapter holds none; is_authenticated is assigned
\* only when the login form was submitted; every exception is caught
authenticate(w, x, login) ==
    LET held == x \in w.tk.browser
    IN [w EXCEPT
          !.tk.browser = IF ~held /\ login # "nolaunch" THEN @ \cup {x} ELSE @,
          !.tk.page = IF ~held /\ login \notin {"nolaunch", "nopage"}
                      THEN @ \cup {x} ELSE @,
          !.tk.is_authenticated = IF login = "accepted" THEN @ \cup {x}
                                  ELSE IF login = "rejected" THEN @ \ {x}
                                  ELSE @,
          !.tk.auth = IF login = "accepted" THEN "ok" ELSE "failed"]

\* the try block of an operation of a browser-backed adapter: without a page
\* the first page call raises and the except branch returns the failure value;
\* with a page the operation goes to the marketplace
adapter_body(w) ==
    IF w.tk.aplat \in w.tk.page
    THEN [w EXCEPT !.tk.pc = "op_await", !.tk.acted = TRUE]
    ELSE [w EXCEPT !.tk.pc = "ready", !.tk.aret = "failure",
                   !.tk.inflight = Returned(@, w.tk.aplat)]

\* an operation of adapter x is called.  Marktplaats: no authenticate;
\* _make_request raises without an access token, which nothing sets, and the
\* operation returns its failure value.  Facebook get_sales returns [] at
\* once.  The others authenticate first when is_authenticated is false.
adapter_begin(w, x, name) ==
    LET w1 == [w EXCEPT !.tk.aop = name, !.tk.aplat = x, !.tk.auth = "",
                        !.tk.acted = FALSE, !.tk.aret = ""]
    IN IF x = "marktplaats"
       THEN [w1 EXCEPT !.tk.pc = "ready", !.tk.aret = "failure"]
       ELSE IF x = "facebook_marketplace" /\ name = "get_sales"
       THEN [w1 EXCEPT !.tk.pc = "ready", !.tk.aret = "value"]
       ELSE IF x \in w.tk.is_authenticated
       THEN adapter_body([w1 EXCEPT !.tk.inflight = Append(@, x)])
       ELSE [w1 EXCEPT !.tk.pc = "auth_await", !.tk.inflight = Append(@, x)]

\* close() of adapter x is called: without a browser it returns at once
adapter_close(w, x) ==
    LET w1 == [w EXCEPT !.tk.aop = "close", !.tk.aplat = x, !.tk.auth = "",
                        !.tk.acted = FALSE, !.tk.aret = "", !.tk.close_error = ""]
    IN IF x \in w.tk.browser
       THEN [w1 EXCEPT !.tk.pc = "close_await", !.tk.closing = <<x>>,
                       !.tk.inflight = Append(@, x)]
       ELSE [w1 EXCEPT !.tk.pc = "closed"]

\* ------------------------------------------------------------ responses
\* the body the endpoint of the request answers with once its service call
\* returned (a record with status_code is an HTTPException)
Response(w) ==
    LET tk == w.tk
        ext(l) == IF l = None THEN None ELSE w.listings[l].platform_listing_id
    IN CASE tk.error # "" ->
              IF tk.op \in {"all", "check", "import"}
              THEN [error |-> tk.error]
              ELSE [status_code |-> 500, detail |-> tk.error]
         [] tk.op = "all" -> [message |-> "All products synced successfully"]
         [] tk.op = "cross" ->
              [product_id |-> tk.pid,
               results |-> [x \in {y \in Platforms : tk.results[y].present} |->
                              [success |-> tk.results[x].listing # None,
                               listing_id |-> ext(tk.results[x].listing)]]]
         [] tk.op = "sync" ->
              IF tk.ret # None
              THEN [success |-> TRUE, listing_id |-> ext(tk.ret), platform |-> tk.plat]
              ELSE [status_code |-> 500, detail |-> "Failed to sync product"]
         [] tk.op = "mark" ->
              IF tk.ok
              THEN [message |-> "Product marked as sold successfully"]
              ELSE [status_code |-> 500, detail |-> "Failed to mark product as sold"]
         [] tk.op = "check" -> [message |-> Len(tk.sold_items),
                                sold_items |-> tk.sold_items]
         [] tk.op = "import" -> [message |-> Len(tk.imported),
                                 count |-> Len(tk.imported),
                                 product_ids |-> tk.imported]
         [] OTHER -> [message |-> ""]

\* ------------------------------------------------------------------ Init
Init ==
    /\ products = <<>>
    /\ listings = <<>>
    /\ sales = <<>>
    /\ external = [x \in Platforms |-> {}]
    /\ sheetRows = 0
    /\ tasks = [t \in Tasks |-> IdleTask]
    /\ nreq = 0
    /\ failed = {}

\* ------------------------------------------------------------- requests
Busy == {t \in Tasks : tasks[t].pc # "idle"}

\* a request is accepted while fewer than lim requests are in flight
Accept(lim) == nreq < MaxRequests /\ Cardinality(Busy) < lim

\* a new SyncService(db) for the request, in the first free slot
Begin(t, op) ==
    [World(t) EXCEPT !.tk = [IdleTask EXCEPT !.op = op, !.sales0 = Len(sales)]]

Start(t, lim) ==
    /\ Accept(lim)
    /\ t = Min(Tasks \ Busy)
    /\ nreq' = nreq + 1

ProductIds == {p \in 1..Len(products) : Exists(products, p)}

\* api/products.py create_product
create_product(price, lim) ==
    /\ Accept(lim)
    /\ Len(products) < MaxProducts
    /\ products' = Append(products, [status |-> "active", price |-> price])
    /\ nreq' = nreq + 1
    /\ UNCHANGED <<listings, sales, external, sheetRows, tasks, failed>>

\* api/products.py update_product; None and "unset" are fields left unset
update_product(p, price, status, lim) ==
    /\ Accept(lim)
    /\ p \in ProductIds
    /\ products' = [products EXCEPT
                      ![p].price = IF price = None THEN @ ELSE price,
                      ![p].status = IF status = "unset" THEN @ ELSE status]
    /\ listings' = [i \in 1..Len(listings) |->
                      IF listings[i].product_id = p
                      THEN [listings[i] EXCEPT !.needs_sync = TRUE]
                      ELSE listings[i]]
    /\ nreq' = nreq + 1
    /\ UNCHANGED <<sales, external, sheetRows, tasks, failed>>

\* api/inventory.py create_inventory_item; sold: sale_date parses to a date
create_inventory_item(price, sold, lim) ==
    /\ Accept(lim)
    /\ Len(products) < MaxProducts
    /\ products' = Append(products, [status |-> IF sold THEN "sold" ELSE "active",
                                     price |-> price])
    /\ nreq' = nreq + 1
    /\ UNCHANGED <<listings, sales, external, sheetRows, tasks, failed>>

\* api/inventory.py update_inventory_item; sale_date is "unset", "date"
\* (parses to a date) or "empty" (parses to None)
update_inventory_item(p, sale_date, status, lim) ==
    /\ Accept(lim)
    /\ p \in ProductIds
    /\ products' = [products EXCEPT ![p].status =
                      IF sale_date = "date" THEN "sold"
                      ELSE IF sale_date = "empty" THEN "active"
                      ELSE IF status = "unset" THEN @ ELSE status]
    /\ nreq' = nreq + 1
    /\ UNCHANGED <<listings, sales, external, sheetRows, tasks, failed>>

\* db.delete(product) and commit: the relationships platform_listings and
\* sales of Product cascade, so the session deletes the product's listings
\* and sales with it
delete_cascade(w, p) ==
    [w EXCEPT !.products[p] = NoProduct,
              !.listings = [i \in 1..Len(w.listings) |->
                              IF w.listings[i].product_id = p THEN NoRow
                              ELSE w.listings[i]],
              !.sales = [i \in 1..Len(w.sales) |->
                              IF w.sales[i].product_id = p THEN NoSale
                              ELSE w.sales[i]]]

\* api/products.py delete_product
delete_product(p, lim) ==
    /\ Accept(lim)
    /\ p \in ProductIds
    /\ LET w == delete_cascade(World(Min(Tasks)), p)
       IN products' = w.products /\ listings' = w.listings /\ sales' = w.sales
    /\ nreq' = nreq + 1
    /\ UNCHANGED <<external, sheetRows, tasks, failed>>

\* api/inventory.py delete_inventory_item
delete_inventory_item(p, lim) ==
    /\ Accept(lim)
    /\ p \in ProductIds
    /\ LET w == delete_cascade(World(Min(Tasks)), p)
       IN products' = w.products /\ listings' = w.listings /\ sales' = w.sales
    /\ nreq' = nreq + 1
    /\ UNCHANGED <<external, sheetRows, tasks, failed>>

\* api/inventory.py delete_multiple_items: one DELETE statement on the table
\* products, which the session's cascade does not see.  enforced: the
\* database checks foreign keys, and the statement fails when a listing or a
\* sale references one of the products; otherwise the rows of products go
\* and what references them stays.
delete_multiple_items(item_ids, enforced, lim) ==
    LET referenced ==
            \/ \E i \in 1..Len(listings) : listings[i].product_id \in item_ids
            \/ \E i \in 1..Len(sales) : sales[i].product_id \in item_ids
    IN /\ Accept(lim)
       /\ products' = IF enforced /\ referenced THEN products
                      ELSE [p \in 1..Len(products) |->
                              IF p \in item_ids THEN NoProduct ELSE products[p]]
       /\ nreq' = nreq + 1
       /\ UNCHANGED <<listings, sales, external, sheetRows, tasks, failed>>

\* api/products.py sync_product_to_platform
api_sync_product_to_platform(t, p, x, lim) ==
    /\ Start(t, lim)
    /\ p \in ProductIds
    /\ Commit(t, sync_begin(Begin(t, "sync"), p, x))

\* api/products.py cross_post_product
api_cross_post_product(t, p, platforms, lim) ==
    /\ Start(t, lim)
    /\ p \in ProductIds
    /\ Commit(t, cross_post_product(Begin(t, "cross"), p, platforms))

\* api/products.py mark_product_sold
mark_product_sold(t, p, x, sale_price, date, sheet, lim) ==
    /\ Start(t, lim)
    /\ p \in ProductIds
    /\ Commit(t, mark_product_as_sold(Begin(t, "mark"), p,
                    [present |-> TRUE, platform |-> x,
                     sale_price |-> IF sale_price = None THEN products[p].price
                                    ELSE sale_price,
                     sale_date |-> date], sheet))

\* api/sync.py check_sold_items
check_sold_items(t, lim) ==
    /\ Start(t, lim)
    /\ Commit(t, check_for_sold_items(Begin(t, "check")))

\* api/sync.py sync_all_products
api_sync_all_products(t, lim) ==
    /\ Start(t, lim)
    /\ Commit(t, sync_all_products(Begin(t, "all")))

\* api/sync.py import_from_platform, up to the await of get_listings
api_import_from_platform(t, x, lim) ==
    /\ Start(t, lim)
    /\ Commit(t, [Begin(t, "import") EXCEPT
                    !.tk.pc = "import_await", !.tk.plat = x,
                    !.tk.browser = InitBrowser(@, x), !.tk.page = InitBrowser(@, x),
                    !.tk.inflight = Append(@, x),
                    !.tk.calls = Append(@, Call("get_listings", None, x, None))])

\* ------------------------------------------------ the adapters answer
\* update_listing / create_listing returns or raises
await_push(t, outcome) ==
    /\ tasks[t].pc = "sync_await"
    /\ (outcome = "ok" /\ tasks[t].path = "create")
          => FreshId(World(t), tasks[t].plat) # None
    /\ Commit(t, sync_return(sync_end(World(t), outcome)))
    /\ UNCHANGED nreq

\* update_listing / create_listing returns or raises and the db.commit() that
\* follows raises
await_push_commit_fails(t, outcome, again) ==
    /\ tasks[t].pc = "sync_await"
    /\ (outcome = "ok" /\ tasks[t].path = "create")
          => FreshId(World(t), tasks[t].plat) # None
    /\ (outcome = "raise" \/ (outcome = "fail" /\ tasks[t].path = "create"))
          => tasks[t].existing # None
    /\ LET w == sync_commit_fails(World(t), outcome, again)
       IN Commit(t, IF w.tk.error # "" THEN w ELSE sync_return(w))
    /\ UNCHANGED nreq

\* mark_as_sold returns or raises
await_mark_as_sold(t, outcome, sheet) ==
    /\ tasks[t].pc = "mark_await"
    /\ Commit(t, mark_as_sold_end(World(t), outcome, sheet))
    /\ UNCHANGED nreq

\* check_listing_status returns or raises
await_check_listing_status(t, status, date, sheet) ==
    /\ tasks[t].pc = "check_await"
    /\ Commit(t, check_status_end(World(t), status, date, sheet))
    /\ UNCHANGED nreq

\* the summaries get_listings can return: at most MaxImport of them
Summaries == [id : ExtIds \cup {None}, price : Prices]
ListingLists == UNION {[1..n -> Summaries] : n \in 0..MaxImport}

\* the products an import of lst would add
NewProducts(ls, x, lst) ==
    Cardinality({lst[i].id : i \in 1..Len(lst)}
                \ {ls[i].platform_listing_id : i \in {j \in 1..Len(ls) : ls[j].platform = x}})

\* get_listings returns
await_get_listings(t, lst) ==
    /\ tasks[t].pc = "import_await"
    /\ Len(products) + NewProducts(listings, tasks[t].plat, lst) <= MaxProducts
    /\ Commit(t, import_end(World(t), lst))
    /\ UNCHANGED nreq

\* get_listings returns and the import raises at summary k
await_get_listings_fails(t, lst, k) ==
    /\ tasks[t].pc = "import_await"
    /\ k \in 1..(Len(lst) + 1)
    /\ Commit(t, import_fails(World(t), lst, k))
    /\ UNCHANGED nreq

\* variant of cleanup that does not wait for the service call to return
cleanup_during_call(t) ==
    /\ tasks[t].pc \in {"done", "sync_await", "mark_await", "check_await",
                        "import_await"}
    /\ Commit(t, cleanup_next([World(t) EXCEPT !.tk.closing = CloseOrder]))
    /\ UNCHANGED nreq

\* the endpoint's cleanup of the service, as the background task of the
\* response or in the except branch: once per request
cleanup(t) ==
    /\ tasks[t].pc = "done"
    /\ Commit(t, cleanup_next([World(t) EXCEPT !.tk.closing = CloseOrder]))
    /\ UNCHANGED nreq

\* browser.close() of the adapter being closed returns or raises
await_close(t, outcome) ==
    /\ tasks[t].pc = "close_await"
    /\ Commit(t, close_end(World(t), outcome))
    /\ UNCHANGED nreq

\* the request is over after its cleanup: the SyncService is dropped
end_request(t) ==
    /\ tasks[t].pc = "closed"
    /\ tasks' = [tasks EXCEPT ![t] = IdleTask]
    /\ UNCHANGED <<products, listings, sales, external, sheetRows, nreq, failed>>

\* SyncService.__init__: the service with its four adapters, none of them
\* holding a browser or authenticated
new_service(t) ==
    /\ tasks[t].pc = "idle"
    /\ tasks' = [tasks EXCEPT ![t] = [IdleTask EXCEPT !.pc = "ready"]]
    /\ UNCHANGED <<products, listings, sales, external, sheetRows, nreq, failed>>

\* the service is between two calls of its adapters
AdapterReady == {"ready", "closed"}

\* an operation of adapter x of the service is called
call_adapter(t, x, name) ==
    /\ tasks[t].pc \in AdapterReady
    /\ Commit(t, adapter_begin(World(t), x, name))
    /\ UNCHANGED nreq

\* the authenticate the operation awaits returns
await_authenticate(t, login) ==
    /\ tasks[t].pc = "auth_await"
    /\ login \in {"nolaunch", "nopage"} => tasks[t].aplat \notin tasks[t].browser
    /\ login \in {"rejected", "accepted"} =>
          (tasks[t].aplat \in tasks[t].browser => tasks[t].aplat \in tasks[t].page)
    /\ Commit(t, adapter_body(authenticate(World(t), tasks[t].aplat, login)))
    /\ UNCHANGED nreq

\* the page actions of the operation are over: it returns its value ("ok") or,
\* from its except branch, its failure value ("fail")
await_operation(t, outcome) ==
    /\ tasks[t].pc = "op_await"
    /\ Commit(t, [World(t) EXCEPT !.tk.pc = "ready",
                                  !.tk.inflight = Returned(@, tasks[t].aplat),
                                  !.tk.aret = IF outcome = "ok" THEN "value"
                                              ELSE "failure"])
    /\ UNCHANGED nreq

\* close() of a browser-backed adapter of the service is called
call_close(t, x) ==
    /\ tasks[t].pc \in AdapterReady
    /\ Commit(t, adapter_close(World(t), x))
    /\ UNCHANGED nreq

\* the endpoint answers, cleanup runs and the SyncService is dropped with its
\* adapters, in one step: the closing of the browsers is followed step by
\* step in SpecCleanup only
respond(t) ==
    /\ tasks[t].pc = "done"
    /\ tasks' = [tasks EXCEPT ![t] = IdleTask]
    /\ UNCHANGED <<products, listings, sales, external, sheetRows, nreq, failed>>

PushOutcomes == {"ok", "fail", "raise"}
StatusResults == {"active", "sold", "deleted", "unknown", "raise"}
SheetOutcomes == {"row", "lost", "none"}
CrossPostLists == UNION {[1..n -> Platforms] : n \in 0..MaxCrossPost}

Requests(lim) ==
    \/ \E price \in Prices : create_product(price, lim)
    \/ \E p \in ProductIds, price \in Prices \cup {None},
          status \in UpdateStatuses \cup {"unset"} :
            update_product(p, price, status, lim)
    \/ \E price \in Prices, sold \in BOOLEAN : create_inventory_item(price, sold, lim)
    \/ \E p \in ProductIds, sale_date \in {"unset", "date", "empty"},
          status \in UpdateStatuses \cup {"unset"} :
            update_inventory_item(p, sale_date, status, lim)
    \/ \E t \in Tasks, p \in ProductIds, x \in Platforms :
            api_sync_product_to_platform(t, p, x, lim)
    \/ \E t \in Tasks, p \in ProductIds, platforms \in CrossPostLists :
            api_cross_post_product(t, p, platforms, lim)
    \/ \E t \in Tasks, p \in ProductIds, x \in Platforms,
          sale_price \in Prices \cup {None}, date \in Dates, sheet \in SheetOutcomes :
            mark_product_sold(t, p, x, sale_price, date, sheet, lim)
    \/ \E t \in Tasks : check_sold_items(t, lim)
    \/ \E t \in Tasks : api_sync_all_products(t, lim)
    \/ \E t \in Tasks, x \in Platforms : api_import_from_platform(t, x, lim)

Steps ==
    \/ \E t \in Tasks, outcome \in PushOutcomes : await_push(t, outcome)
    \/ \E t \in Tasks, outcome \in PushOutcomes, sheet \in SheetOutcomes :
            await_mark_as_sold(t, outcome, sheet)
    \/ \E t \in Tasks, status \in StatusResults, date \in Dates, sheet \in SheetOutcomes :
            await_check_listing_status(t, status, date, sheet)
    \/ \E t \in Tasks, lst \in ListingLists : await_get_listings(t, lst)

\* one request at a time
Next == Requests(1) \/ Steps \/ \E t \in Tasks : respond(t)

Spec == Init /\ [][Next]_vars

\* the push side with up to MaxTasks requests in flight, interleaved at the
\* awaits of the adapter calls
NextConc ==
    \/ \E price \in Prices : create_product(price, MaxTasks)
    \/ \E p \in ProductIds, price \in Prices \cup {None},
          status \in UpdateStatuses \cup {"unset"} :
            update_product(p, price, status, MaxTasks)
    \/ \E t \in Tasks, p \in ProductIds, x \in Platforms :
            api_sync_product_to_platform(t, p, x, MaxTasks)
    \/ \E t \in Tasks, p \in ProductIds, platforms \in CrossPostLists :
            api_cross_post_product(t, p, platforms, MaxTasks)
    \/ \E t \in Tasks : api_sync_all_products(t, MaxTasks)
    \/ \E t \in Tasks, x \in Platforms : api_import_from_platform(t, x, MaxTasks)
    \/ \E t \in Tasks, outcome \in PushOutcomes : await_push(t, outcome)
    \/ \E t \in Tasks, lst \in ListingLists : await_get_listings(t, lst)
    \/ \E t \in Tasks : respond(t)

SpecConc == Init /\ [][NextConc]_vars

\* the requests that build a SyncService, one at a time, each followed by the
\* cleanup of its adapters; sales are dated 1 and not exported
NextCleanup ==
    \/ \E price \in Prices : create_product(price, 1)
    \/ \E t \in Tasks, p \in ProductIds, x \in Platforms :
            api_sync_product_to_platform(t, p, x, 1)
    \/ \E t \in Tasks, p \in ProductIds, platforms \in CrossPostLists :
            api_cross_post_product(t, p, platforms, 1)
    \/ \E t \in Tasks, p \in ProductIds, x \in Platforms :
            mark_product_sold(t, p, x, None, 1, "none", 1)
    \/ \E t \in Tasks : check_sold_items(t, 1)
    \/ \E t \in Tasks : api_sync_all_products(t, 1)
    \/ \E t \in Tasks, x \in Platforms : api_import_from_platform(t, x, 1)
    \/ \E t \in Tasks, outcome \in PushOutcomes : await_push(t, outcome)
    \/ \E t \in Tasks, outcome \in PushOutcomes : await_mark_as_sold(t, outcome, "none")
    \/ \E t \in Tasks, status \in StatusResults :
            await_check_listing_status(t, status, 1, "none")
    \/ \E t \in Tasks, lst \in ListingLists : await_get_listings(t, lst)
    \/ \E t \in Tasks : cleanup(t)
    \/ \E t \in Tasks, outcome \in {"ok", "raise"} : await_close(t, outcome)
    \/ \E t \in Tasks : end_request(t)

SpecCleanup == Init /\ [][NextCleanup]_vars

\* the detection and the recording of sales with up to MaxTasks requests in
\* flight, interleaved at the awaits of the adapter calls, over imported
\* listings; sales are dated 1 and not exported
NextSale ==
    \/ \E t \in Tasks, x \in Platforms : api_import_from_platform(t, x, MaxTasks)
    \/ \E t \in Tasks, p \in ProductIds, x \in Platforms :
            mark_product_sold(t, p, x, None, 1, "none", MaxTasks)
    \/ \E t \in Tasks : check_sold_items(t, MaxTasks)
    \/ \E t \in Tasks, lst \in ListingLists : await_get_listings(t, lst)
    \/ \E t \in Tasks, outcome \in PushOutcomes : await_mark_as_sold(t, outcome, "none")
    \/ \E t \in Tasks, status \in StatusResults :
            await_check_listing_status(t, status, 1, "none")
    \/ \E t \in Tasks : respond(t)

SpecSale == Init /\ [][NextSale]_vars

\* cross-posts with up to MaxTasks requests in flight, each followed by the
\* cleanup of its own service
NextConcCleanup ==
    \/ \E price \in Prices : create_product(price, MaxTasks)
    \/ \E t \in Tasks, p \in ProductIds, platforms \in CrossPostLists :
            api_cross_post_product(t, p, platforms, MaxTasks)
    \/ \E t \in Tasks, outcome \in PushOutcomes : await_push(t, outcome)
    \/ \E t \in Tasks : cleanup(t)
    \/ \E t \in Tasks, outcome \in {"ok", "raise"} : await_close(t, outcome)
    \/ \E t \in Tasks : end_request(t)

SpecConcCleanup == Init /\ [][NextConcCleanup]_vars

\* the push side, one request at a time, with commits that can raise
NextCommit ==
    \/ \E price \in Prices : create_product(price, 1)
    \/ \E p \in ProductIds, price \in Prices \cup {None},
          status \in UpdateStatuses \cup {"unset"} :
            update_product(p, price, status, 1)
    \/ \E t \in Tasks, p \in ProductIds, x \in Platforms :
            api_sync_product_to_platform(t, p, x, 1)
    \/ \E t \in Tasks, p \in ProductIds, platforms \in CrossPostLists :
            api_cross_post_product(t, p, platforms, 1)
    \/ \E t \in Tasks : api_sync_all_products(t, 1)
    \/ \E t \in Tasks, outcome \in PushOutcomes : await_push(t, outcome)
    \/ \E t \in Tasks, outcome \in PushOutcomes, again \in BOOLEAN :
            await_push_commit_fails(t, outcome, again)
    \/ \E t \in Tasks : respond(t)

SpecCommit == Init /\ [][NextCommit]_vars

\* products are created, listed, sold and deleted, one request at a time;
\* sales are dated 1 and not exported
NextDelete ==
    \/ \E price \in Prices : create_product(price, 1)
    \/ \E t \in Tasks, p \in ProductIds, x \in Platforms :
            api_sync_product_to_platform(t, p, x, 1)
    \/ \E t \in Tasks, p \in ProductIds, x \in Platforms :
            mark_product_sold(t, p, x, None, 1, "none", 1)
    \/ \E t \in Tasks : api_sync_all_products(t, 1)
    \/ \E p \in ProductIds : delete_product(p, 1)
    \/ \E p \in ProductIds : delete_inventory_item(p, 1)
    \/ \E item_ids \in SUBSET (1..MaxProducts), enforced \in BOOLEAN :
            delete_multiple_items(item_ids, enforced, 1)
    \/ \E t \in Tasks, outcome \in PushOutcomes : await_push(t, outcome)
    \/ \E t \in Tasks, outcome \in PushOutcomes : await_mark_as_sold(t, outcome, "none")
    \/ \E t \in Tasks : respond(t)

SpecDelete == Init /\ [][NextDelete]_vars

\* one SyncService whose adapters are called one operation at a time, in any
\* order, with the logins and page actions going either way
NextAdapter ==
    \/ new_service(Min(Tasks))
    \/ \E x \in Platform, name \in AdapterOps : call_adapter(Min(Tasks), x, name)
    \/ \E login \in Logins : await_authenticate(Min(Tasks), login)
    \/ \E outcome \in {"ok", "fail"} : await_operation(Min(Tasks), outcome)
    \/ \E x \in BrowserPlatforms : call_close(Min(Tasks), x)
    \/ \E outcome \in {"ok", "raise"} : await_close(Min(Tasks), outcome)

SpecAdapter == Init /\ [][NextAdapter]_vars

\* POST /sync/all sent again and again by the operator: a sweep outside the
\* budget of requests
repeat_sync_all_products(t) ==
    /\ Busy = {}
    /\ t = Min(Tasks)
    /\ Commit(t, sync_all_products(Begin(t, "all")))
    /\ UNCHANGED nreq

\* products, edits and single syncs within the budget, sweeps for ever
NextLive ==
    \/ \E price \in Prices : create_product(price, 1)
    \/ \E p \in ProductIds, price \in Prices \cup {None},
          status \in UpdateStatuses \cup {"unset"} :
            update_product(p, price, status, 1)
    \/ \E t \in Tasks, p \in ProductIds, x \in Platforms :
            api_sync_product_to_platform(t, p, x, 1)
    \/ \E t \in Tasks : repeat_sync_all_products(t)
    \/ \E t \in Tasks, outcome \in PushOutcomes : await_push(t, outcome)
    \/ \E t \in Tasks : respond(t)

\* sweeps keep being run, every request is answered, and the push of every
\* (product, platform) succeeds eventually if it is tried again and again
FairLive ==
    /\ WF_vars(\E t \in Tasks : repeat_sync_all_products(t))
    /\ WF_vars(\E t \in Tasks : respond(t))
    /\ \A p \in 1..MaxProducts, x \in Platforms :
          SF_vars(\E t \in Tasks :
                    await_push(t, "ok") /\ tasks[t].pid = p /\ tasks[t].plat = x)

SpecLive == Init /\ [][NextLive]_vars /\ FairLive

\* products, cross-posts and edits within the budget of requests, and sweeps
\* outside it, one request at a time: a sweep can find several flagged records
NextSweep ==
    \/ \E price \in Prices : create_product(price, 1)
    \/ \E p \in ProductIds, price \in Prices \cup {None},
          status \in UpdateStatuses \cup {"unset"} :
            update_product(p, price, status, 1)
    \/ \E t \in Tasks, p \in ProductIds, platforms \in CrossPostLists :
            api_cross_post_product(t, p, platforms, 1)
    \/ \E t \in Tasks : repeat_sync_all_products(t)
    \/ \E t \in Tasks, outcome \in PushOutcomes : await_push(t, outcome)
    \/ \E t \in Tasks : respond(t)

SpecSweep == Init /\ [][NextSweep]_vars

\* api/products.py mark_product_sold for a product without listings, up to
\* the commit of line 192: the sale is stored, its export is to come
mark_product_sold_commit(t, p, x, date, lim) ==
    /\ Start(t, lim)
    /\ p \in ProductIds
    /\ \A i \in 1..Len(listings) : listings[i].product_id # p
    /\ Commit(t, [mark_product_as_sold(Begin(t, "mark"), p,
                      [present |-> TRUE, platform |-> x,
                       sale_price |-> products[p].price, sale_date |-> date],
                      "none")
                  EXCEPT !.tk.pc = "export_await", !.tk.sale_id = Len(sales) + 1])

\* lines 195-197 and 199-227: add_sale returns, the sale is marked (or not)
\* and mark_product_as_sold returns
await_add_sale(t, sheet) ==
    /\ tasks[t].pc = "export_await"
    /\ Commit(t, [sync_sale_to_sheets(World(t), tasks[t].sale_id, sheet)
                  EXCEPT !.tk.pc = "done"])
    /\ UNCHANGED nreq

\* sales marked by the operator, with the commit of the sale and the commit
\* of its export as two steps, up to MaxTasks requests in flight
NextStored ==
    \/ \E price \in Prices : create_product(price, MaxTasks)
    \/ \E p \in ProductIds, price \in Prices \cup {None},
          status \in UpdateStatuses \cup {"unset"} :
            update_product(p, price, status, MaxTasks)
    \/ \E t \in Tasks, p \in ProductIds, x \in Platforms, date \in Dates :
            mark_product_sold_commit(t, p, x, date, MaxTasks)
    \/ \E t \in Tasks, sheet \in SheetOutcomes : await_add_sale(t, sheet)
    \/ \E t \in Tasks : respond(t)

SpecStored == Init /\ [][NextStored]_vars

\* imports that go through or raise part-way, one request at a time
NextImport ==
    \/ \E price \in Prices : create_product(price, 1)
    \/ \E t \in Tasks, x \in Platforms : api_import_from_platform(t, x, 1)
    \/ \E t \in Tasks, lst \in ListingLists : await_get_listings(t, lst)
    \/ \E t \in Tasks, lst \in ListingLists, k \in 1..(MaxImport + 1) :
            await_get_listings_fails(t, lst, k)
    \/ \E t \in Tasks : respond(t)

SpecImport == Init /\ [][NextImport]_vars

\* POST /sync/check-sold sent again and again: a poll outside the budget of
\* requests
repeat_check_sold_items(t) ==
    /\ Busy = {}
    /\ t = Min(Tasks)
    /\ Commit(t, check_for_sold_items(Begin(t, "check")))
    /\ UNCHANGED nreq

\* products, pushes and sales marked by the operator within the budget of
\* requests, polls for ever, one request at a time
NextExport ==
    \/ \E price \in Prices : create_product(price, 1)
    \/ \E t \in Tasks, p \in ProductIds, x \in Platforms :
            api_sync_product_to_platform(t, p, x, 1)
    \/ \E t \in Tasks, p \in ProductIds, x \in Platforms, sheet \in SheetOutcomes :
            mark_product_sold(t, p, x, None, 1, sheet, 1)
    \/ \E t \in Tasks : repeat_check_sold_items(t)
    \/ \E t \in Tasks, outcome \in PushOutcomes : await_push(t, outcome)
    \/ \E t \in Tasks, outcome \in PushOutcomes, sheet \in SheetOutcomes :
            await_mark_as_sold(t, outcome, sheet)
    \/ \E t \in Tasks, status \in StatusResults, sheet \in SheetOutcomes :
            await_check_listing_status(t, status, 1, sheet)
    \/ \E t \in Tasks : respond(t)

\* polls keep being run, every adapter call returns, every request is
\* answered, and add_sale appends and counts the row it is given whenever
\* sync_sale_to_sheets is called again and again
FairExport ==
    /\ WF_vars(\E t \in Tasks : repeat_check_sold_items(t))
    /\ WF_vars(\E t \in Tasks : respond(t))
    /\ WF_vars(\E t \in Tasks, outcome \in PushOutcomes : await_push(t, outcome))
    /\ SF_vars(\E t \in Tasks, outcome \in PushOutcomes :
                  await_mark_as_sold(t, outcome, "row"))
    /\ SF_vars(\E t \in Tasks, status \in StatusResults :
                  await_check_listing_status(t, status, 1, "row"))
    /\ SF_vars(\E t \in Tasks, p \in ProductIds, x \in Platforms :
                  mark_product_sold(t, p, x, None, 1, "row", 1))

SpecExport == Init /\ [][NextExport]_vars /\ FairExport

\* products with prices of SalePrices, pushed, re-priced and sold within the
\* budget of requests, and polls outside it, one request at a time
NextPrice ==
    \/ \E price \in SalePrices : create_product(price, 1)
    \/ \E p \in ProductIds, price \in SalePrices : update_product(p, price, "unset", 1)
    \/ \E t \in Tasks, p \in ProductIds, x \in Platforms :
            api_sync_product_to_platform(t, p, x, 1)
    \/ \E t \in Tasks, p \in ProductIds, x \in Platforms,
          sale_price \in SalePrices \cup {None} :
            mark_product_sold(t, p, x, sale_price, 1, "row", 1)
    \/ \E t \in Tasks : repeat_check_sold_items(t)
    \/ \E t \in Tasks, outcome \in PushOutcomes : await_push(t, outcome)
    \/ \E t \in Tasks, outcome \in PushOutcomes : await_mark_as_sold(t, outcome, "row")
    \/ \E t \in Tasks, status \in StatusResults :
            await_check_listing_status(t, status, 1, "row")
    \/ \E t \in Tasks : respond(t)

SpecPrice == Init /\ [][NextPrice]_vars

\* ======================================================================
\* properties
\* ======================================================================
ListingIds == 1..Len(listings)
SaleIds == 1..Len(sales)
RowsOf(p, x) == {i \in ListingIds : listings[i].product_id = p /\ listings[i].platform = x}
Synced(l) == ~l.needs_sync /\ l.sync_error = NoError

\* C1: in every step in which sync_product_to_platform returns a listing
\* (a result that is not None), that listing is the record of the pair
\* (product, platform) and has needs_sync = FALSE and sync_error = None,
\* on the update path and on the create path alike.
C1_SyncedOnSuccess ==
    [][\A t \in Tasks :
          (tasks[t].pc = "sync_await" /\ tasks'[t] # tasks[t] /\ tasks'[t].ret # None)
          => LET l == listings'[tasks'[t].ret]
             IN /\ l.product_id = tasks[t].pid
                /\ l.platform = tasks[t].plat
                /\ Synced(l)]_vars

\* a sync that took the update path on a record carrying an error and
\* returned that record, the error cleared
C1_Witness ==
    \E t \in Tasks :
        /\ tasks[t].op = "sync" /\ tasks[t].pc = "done"
        /\ tasks[t].ret # None /\ tasks[t].path = "update"
        /\ tasks[t].loaded.sync_error # NoError
        /\ Synced(listings[tasks[t].ret])

\* C2: at most one listing record exists per (product, platform), also when
\* two requests are interleaved at the adapter calls.
C2_OneRecordPerPair ==
    \A i, j \in ListingIds :
        (listings[i].product_id = listings[j].product_id
         /\ listings[i].platform = listings[j].platform) => i = j

\* C3: when cross_post_product(P, [A, B]) has returned with A failed (no
\* listing) and B succeeded, B's record is synced with its external id set
\* and a record for (P, A) exists with needs_sync = TRUE.
C3_FailedPlatformFlagged ==
    \A t \in Tasks : \A a, b \in Platforms :
        (/\ tasks[t].op = "cross" /\ tasks[t].pc = "done" /\ a # b
         /\ tasks[t].results[a].present /\ tasks[t].results[a].listing = None
         /\ tasks[t].results[b].present /\ tasks[t].results[b].listing # None)
        => /\ Synced(listings[tasks[t].results[b].listing])
           /\ listings[tasks[t].results[b].listing].platform_listing_id # None
           /\ \E i \in RowsOf(tasks[t].pid, a) : listings[i].needs_sync

\* C4: in a check_for_sold_items sweep mark_product_as_sold is called at most
\* once per product; after the call no further check_listing_status is made
\* for that product; once the product is reported it is SOLD and the sweep
\* has created exactly one sale for it, and none for a product not reported.
C4_FirstSaleWins ==
    \A t \in Tasks : tasks[t].op = "check" =>
        LET c == tasks[t].calls
            marks(p) == {i \in 1..Len(c) :
                            c[i].op = "mark_product_as_sold" /\ c[i].pid = p}
            made(p) == {k \in SaleIds : k > tasks[t].sales0 /\ sales[k].product_id = p}
            reported(p) == \E i \in 1..Len(tasks[t].sold_items) :
                              tasks[t].sold_items[i] = p
        IN \A p \in ProductIds :
            /\ Cardinality(marks(p)) <= 1
            /\ \A i \in marks(p) : \A j \in 1..Len(c) :
                  (j > i /\ c[j].pid = p) => c[j].op = "mark_as_sold"
            /\ \A i \in marks(p) : products[p].status = "sold"
            /\ Cardinality(made(p)) = IF reported(p) THEN 1 ELSE 0

\* a finished sweep that reported a product with two listings after a
\* single check_listing_status call for it
C4_Witness ==
    \E t \in Tasks : \E p \in ProductIds :
        /\ tasks[t].op = "check" /\ tasks[t].pc = "done"
        /\ tasks[t].sold_items = <<p>>
        /\ Cardinality({i \in ListingIds : listings[i].product_id = p
                                           /\ listings[i].platform_listing_id # None}) = 2
        /\ Cardinality({i \in 1..Len(tasks[t].calls) :
                            /\ tasks[t].calls[i].op = "check_listing_status"
                            /\ tasks[t].calls[i].pid = p}) = 1

\* C5: no two sales have the same (product, platform, timestamp): a second
\* mark_product_as_sold with the same sale data creates no second sale.
C5_NoDuplicateSale ==
    \A i, j \in SaleIds :
        (/\ sales[i].product_id = sales[j].product_id
         /\ sales[i].platform = sales[j].platform
         /\ sales[i].sale_date = sales[j].sale_date) => i = j

\* C6: a sync of a product that has a listing record on the platform (as
\* every imported product has, whatever id its summary carried) calls
\* update_listing, never create_listing.
C6_ImportedNeverCreated ==
    \A t \in Tasks :
        (tasks[t].pc = "sync_await" /\ tasks[t].existing # None)
        => tasks[t].path = "update"

\* C7: after a cross-post in which A's create succeeded and B's create failed
\* the record of A is ACTIVE with its external id and needs_sync = FALSE, and
\* a finished sync_all_products sweep has made a sync attempt for every
\* (product, platform) whose last push failed.
C7_SweepRetriesFailed ==
    \A t \in Tasks :
        /\ \A a \in Platforms :
             (/\ tasks[t].op = "cross" /\ tasks[t].pc = "done"
              /\ tasks[t].results[a].present /\ tasks[t].results[a].listing # None)
             => LET l == listings[tasks[t].results[a].listing]
                IN /\ l.platform_status = "active"
                   /\ l.platform_listing_id # None
                   /\ ~l.needs_sync
        /\ (tasks[t].op = "all" /\ tasks[t].pc = "done")
             => \A f \in failed :
                  \E i \in 1..Len(tasks[t].calls) :
                      /\ tasks[t].calls[i].pid = f[1]
                      /\ tasks[t].calls[i].platform = f[2]

\* C8: when the push of sync_product_to_platform fails and a record of the
\* pair existed before, the record keeps its external id, has sync_error
\* set and has needs_sync = TRUE.
C8_FailureKeepsRetryFlag ==
    \A t \in Tasks :
        (/\ tasks[t].op = "sync" /\ tasks[t].pc = "done"
         /\ tasks[t].ret = None /\ tasks[t].existing # None)
        => LET l == listings[tasks[t].existing]
           IN /\ l.platform_listing_id = tasks[t].loaded.platform_listing_id
              /\ l.sync_error # NoError
              /\ l.needs_sync

\* C9 as claimed: a product is SOLD if and only if a sale exists for it.
C9_SoldIffSale ==
    \A p \in ProductIds :
        products[p].status = "sold" <=> \E k \in SaleIds : sales[k].product_id = p

\* C9 amended: every step that creates a sale leaves the product of that
\* sale with status SOLD (requests handled one at a time).
C9_SaleCreatedOnSold ==
    [][\A k \in 1..Len(sales') :
          k > Len(sales) => products'[sales'[k].product_id].status = "sold"]_vars

\* a sale whose product is SOLD, next to a product that is SOLD without a sale
C9_Witness ==
    /\ \E k \in SaleIds : products[sales[k].product_id].status = "sold"
    /\ \E p \in ProductIds :
          /\ products[p].status = "sold"
          /\ \A k \in SaleIds : sales[k].product_id # p

\* C10 as claimed: once a product is SOLD no step changes its status.
C10_SoldForever ==
    [][\A p \in ProductIds :
          products[p].status = "sold" => products'[p].status = "sold"]_vars

\* C10 amended: a step that changes the status of a SOLD product is a step of
\* the product update endpoint or of the inventory update endpoint; sync,
\* cross-post, sweeps, mark sold and import never do.
C10_OnlyEditsUnsell ==
    [][(\E p \in ProductIds :
            products[p].status = "sold" /\ products'[p].status # "sold")
       => \/ \E p \in ProductIds, price \in Prices \cup {None},
                status \in UpdateStatuses \cup {"unset"} :
                  update_product(p, price, status, 1)
          \/ \E p \in ProductIds, sale_date \in {"unset", "date", "empty"},
                status \in UpdateStatuses \cup {"unset"} :
                  update_inventory_item(p, sale_date, status, 1)]_vars

\* a product with a recorded sale whose status is no longer SOLD
C10_Witness ==
    \E k \in SaleIds : products[sales[k].product_id].status # "sold"

\* C11: when mark_product_as_sold has returned True for a product, every
\* listing record of that product has platform status SOLD, whatever the
\* remote mark_as_sold did and also when it could not be called.
C11_AllListingsSold ==
    \A t \in Tasks :
        (tasks[t].op = "mark" /\ tasks[t].pc = "done" /\ tasks[t].ok)
        => \A i \in ListingIds :
              listings[i].product_id = tasks[t].pid
              => listings[i].platform_status = "sold"

\* C12: cross_post_product returns only after one sync_product_to_platform
\* per requested platform, in the order requested, each completed before the
\* next starts; the result map then has an entry for every requested platform
\* and for no other, whichever of the pushes failed.
C12_CrossPostJoins ==
    \A t \in Tasks : tasks[t].op = "cross" =>
        LET c == tasks[t].calls
            req == tasks[t].platforms
        IN /\ Len(c) <= Len(req)
           /\ \A i \in 1..Len(c) :
                 /\ c[i].platform = req[i] /\ c[i].pid = tasks[t].pid
                 /\ c[i].op \in {"update_listing", "create_listing"}
           /\ tasks[t].pc = "sync_await" =>
                 \A x \in Platforms : tasks[t].results[x].present
                     <=> x \in {req[i] : i \in 1..(Len(c) - 1)}
           /\ tasks[t].pc # "sync_await" =>
                 /\ Len(c) = Len(req)
                 /\ \A x \in Platforms :
                       tasks[t].results[x].present <=> x \in Range(req)

\* a finished cross-post to two platforms whose first push failed and whose
\* second push succeeded
C12_Witness ==
    \E t \in Tasks :
        /\ tasks[t].op = "cross" /\ tasks[t].pc = "done"
        /\ Len(tasks[t].platforms) = 2
        /\ tasks[t].platforms[1] # tasks[t].platforms[2]
        /\ tasks[t].results[tasks[t].platforms[1]].listing = None
        /\ tasks[t].results[tasks[t].platforms[2]].listing # None

\* C13: after every step of an endpoint that edits a product (product update,
\* inventory item update), every listing record of that product has
\* needs_sync = TRUE.
C13_EditFlagsListings ==
    [][\A p \in ProductIds :
          (\/ \E price \in Prices \cup {None}, status \in UpdateStatuses \cup {"unset"} :
                  update_product(p, price, status, 1)
           \/ \E sale_date \in {"unset", "date", "empty"},
                 status \in UpdateStatuses \cup {"unset"} :
                  update_inventory_item(p, sale_date, status, 1))
          => \A i \in 1..Len(listings') :
                listings'[i].product_id = p => listings'[i].needs_sync]_vars

\* C14: a step that changes a listing record's needs_sync from TRUE to FALSE
\* is a step in which update_listing or create_listing for the record's
\* (product, platform) returned success; mark sold, check sold, import and
\* the edit endpoints never clear it.
C14_ClearedOnlyByPush ==
    [][\A i \in ListingIds :
          (listings[i].needs_sync /\ ~listings'[i].needs_sync)
          => \E t \in Tasks :
                /\ await_push(t, "ok")
                /\ tasks[t].pid = listings[i].product_id
                /\ tasks[t].plat = listings[i].platform]_vars

\* a sweep that found a flagged record and cleared its flag by a push
C14_Witness ==
    \E t \in Tasks :
        /\ tasks[t].op = "all" /\ tasks[t].pc = "done"
        /\ tasks[t].existing # None /\ tasks[t].loaded.needs_sync
        /\ ~listings[tasks[t].existing].needs_sync

\* C15: create_listing succeeds at most once per (product, platform): no
\* create_listing returns an id while a record of the pair already carries
\* an external id, also when two requests for the pair are interleaved at
\* the adapter calls.
C15_CreatedOncePerPair ==
    [][\A t \in Tasks :
          (await_push(t, "ok") /\ tasks[t].path = "create")
          => ~\E i \in RowsOf(tasks[t].pid, tasks[t].plat) :
                 listings[i].platform_listing_id # None]_vars

\* C20: when the cleanup of a request is over, no adapter of its service
\* still holds a browser, except the adapter whose own close() raised: a
\* failure while closing one adapter does not keep the others open.
C20_AllBrowsersClosed ==
    \A t \in Tasks :
        tasks[t].pc = "closed" => tasks[t].browser \subseteq {tasks[t].close_error}

\* C16: under FairLive every listing record with needs_sync = TRUE
\* eventually has needs_sync = FALSE, and every (product, platform) whose
\* push failed is eventually tried again by a sync_all_products sweep.
C16_EventuallyConsistent ==
    /\ \A i \in 1..(MaxProducts * NumPlatforms) :
          (i \in ListingIds /\ listings[i].needs_sync)
          ~> (i \in ListingIds /\ ~listings[i].needs_sync)
    /\ \A p \in 1..MaxProducts, x \in Platforms :
          (<<p, x>> \in failed)
          ~> (\E t \in Tasks :
                /\ tasks[t].op = "all"
                /\ \E k \in 1..Len(tasks[t].calls) :
                      tasks[t].calls[k].pid = p /\ tasks[t].calls[k].platform = x)

C18_ImportOncePerId ==
    [][\A t \in Tasks : \A lst \in ListingLists :
          await_get_listings(t, lst) =>
            LET x == tasks[t].plat
                old == {listings[i].platform_listing_id :
                            i \in {j \in ListingIds : listings[j].platform = x}}
                new == {lst[i].id : i \in 1..Len(lst)} \ old
                added == (Len(listings) + 1)..Len(listings')
                again == import_end([World(t) EXCEPT !.products = products',
                                                     !.listings = listings'], lst)
            IN /\ Len(listings') = Len(listings) + Cardinality(new)
               /\ Len(products') = Len(products) + Cardinality(new)
               /\ SubSeq(listings', 1, Len(listings)) = listings
               /\ SubSeq(products', 1, Len(products)) = products
               /\ \A id \in new :
                     Cardinality({k \in added :
                                     listings'[k].platform_listing_id = id}) = 1
               /\ \A k \in added :
                     /\ listings'[k].platform = x
                     /\ listings'[k].platform_status = "active"
                     /\ ~listings'[k].needs_sync
                     /\ listings'[k].product_id \in (Len(products) + 1)..Len(products')
                     /\ products'[listings'[k].product_id].status = "active"
                     /\ \A j \in added : listings'[j].product_id = listings'[k].product_id
                                          => j = k
               /\ again.listings = listings' /\ again.products = products'
               /\ again.tk.imported = <<>>]_vars

\* a finished import that created two products, each with its record on the
\* platform
C18_Witness ==
    \E t \in Tasks :
        /\ tasks[t].op = "import" /\ tasks[t].pc = "done"
        /\ Len(tasks[t].imported) = 2
        /\ \A k \in 1..2 :
              \E i \in ListingIds :
                  /\ listings[i].product_id = tasks[t].imported[k]
                  /\ listings[i].platform = tasks[t].plat

\* C19: in every state a sale with synced_to_sheets = TRUE carries the row
\* number add_sale returned; and a step in which the export returned no row
\* number or raised leaves the sale it created with synced_to_sheets = FALSE.
C19_SyncedOnlyOnRow ==
    /\ [](\A k \in SaleIds :
            sales[k].synced_to_sheets => sales[k].sheets_row_number # None)
    /\ [][(/\ Len(sales') > Len(sales)
            /\ \E t \in Tasks, sheet \in {"lost", "none"} :
              \/ \E p \in ProductIds, x \in Platforms, sale_price \in Prices \cup {None},
                    date \in Dates : mark_product_sold(t, p, x, sale_price, date, sheet, 1)
              \/ \E outcome \in PushOutcomes : await_mark_as_sold(t, outcome, sheet)
              \/ \E status \in StatusResults, date \in Dates :
                    await_check_listing_status(t, status, date, sheet))
          => \A k \in (Len(sales) + 1)..Len(sales') : ~sales'[k].synced_to_sheets]_vars

\* a sale exported and marked with its row next to a sale whose export failed
C19_Witness ==
    /\ \E k \in SaleIds :
          sales[k].synced_to_sheets /\ sales[k].sheets_row_number = sheetRows
    /\ \E k \in SaleIds : ~sales[k].synced_to_sheets

\* C21: an adapter operation whose authentication on first use failed does
\* not go to the marketplace and does not return a value: it returns its
\* failure value.
C21_AuthFailureIsFailure ==
    \A t \in Tasks :
        tasks[t].auth = "failed" => ~tasks[t].acted /\ tasks[t].aret # "value"

\* C22: close() of an adapter that holds no browser changes nothing; after a
\* close() that returned the adapter holds neither browser nor page; a second
\* close() right after it leaves the service as the first one left it.
C22_CloseIdempotent ==
    /\ [][\A t \in Tasks, x \in BrowserPlatforms :
             /\ (call_close(t, x) /\ x \notin tasks[t].browser)
                   => /\ tasks'[t].browser = tasks[t].browser
                      /\ tasks'[t].page = tasks[t].page
                      /\ tasks'[t].is_authenticated = tasks[t].is_authenticated
                      /\ tasks'[t].pc = "closed"
             /\ (await_close(t, "ok") /\ tasks[t].aop = "close" /\ tasks[t].aplat = x)
                   => /\ tasks'[t].browser = tasks[t].browser \ {x}
                      /\ tasks'[t].page = tasks[t].page \ {x}
                      /\ tasks'[t].pc = "closed"]_vars
    /\ [](\A t \in Tasks :
             (tasks[t].aop = "close" /\ tasks[t].pc = "closed"
                  /\ tasks[t].close_error = "")
             => /\ tasks[t].aplat \notin tasks[t].browser \cup tasks[t].page
                /\ adapter_close(World(t), tasks[t].aplat).tk = tasks[t])

\* close() returned on an adapter that had logged in, hence held a browser,
\* while another adapter of the service holds a browser without a page
C22_Witness ==
    \E t \in Tasks :
        /\ tasks[t].aop = "close" /\ tasks[t].pc = "closed"
        /\ tasks[t].close_error = ""
        /\ tasks[t].aplat \in tasks[t].is_authenticated
        /\ tasks[t].aplat \notin tasks[t].browser
        /\ tasks[t].browser \ tasks[t].page # {}

\* C23: the answer to a full sweep in which the push of some flagged record
\* failed is not the overall success message.
C23_SweepReportsFailures ==
    \A t \in Tasks :
        (/\ tasks[t].op = "all" /\ tasks[t].pc = "done"
         /\ \E k \in 1..Len(tasks[t].calls) :
               <<tasks[t].calls[k].pid, tasks[t].calls[k].platform>> \in failed)
        => Response(World(t)) # [message |-> "All products synced successfully"]

\* C24: when a commit raised during sync_product_to_platform, the service
\* call ends with that exception and the needs_sync the record was stored
\* with stays true.
C24_CommitFailurePropagates ==
    \A t \in Tasks :
        (tasks[t].commit_failed /\ tasks[t].pc # "sync_await")
        => /\ tasks[t].error # ""
           /\ (tasks[t].existing # None /\ tasks[t].loaded.needs_sync)
                 => listings[tasks[t].existing].needs_sync

\* C25: no listing record and no sale references a product that does not
\* exist, whichever endpoint deleted products.
C25_NoOrphans ==
    /\ \A i \in ListingIds :
          listings[i] # NoRow => listings[i].product_id \in ProductIds
    /\ \A i \in SaleIds :
          sales[i] # NoSale => sales[i].product_id \in ProductIds

\* the stored external ids of the records of (p, x)
StoredIds(p, x) ==
    {listings[i].platform_listing_id : i \in RowsOf(p, x)} \ {None}

\* C26: every sync makes one adapter push call: update_listing with the
\* stored external id when a record of the pair holds one, create_listing
\* otherwise; the update path leaves the stored external id and the
\* marketplace's listings as they were.
C26_OnePushPerSync ==
    /\ [](\A t \in Tasks :
             tasks[t].pc = "sync_await" =>
                LET c == tasks[t].calls[Len(tasks[t].calls)]
                    ids == StoredIds(tasks[t].pid, tasks[t].plat)
                IN /\ c.pid = tasks[t].pid /\ c.platform = tasks[t].plat
                   /\ ids # {} => c.op = "update_listing" /\ c.id \in ids
                   /\ ids = {} => c.op = "create_listing")
    /\ [][\A t \in Tasks :
             tasks'[t] # tasks[t] =>
                /\ tasks'[t].op \in {"sync", "cross", "all"} =>
                      Len(tasks'[t].calls) =
                         (IF tasks[t].pc = "idle" THEN 0 ELSE Len(tasks[t].calls))
                         + (IF tasks'[t].pc = "sync_await" THEN 1 ELSE 0)
                /\ (tasks[t].pc = "sync_await" /\ tasks[t].path = "update") =>
                      /\ listings'[tasks[t].existing].platform_listing_id
                            = listings[tasks[t].existing].platform_listing_id
                      /\ external' = external]_vars

\* a cross-post that updated the listing of one platform and created the
\* listing of the other has returned, both pushes having succeeded
C26_Witness ==
    \E t \in Tasks :
        /\ tasks[t].op = "cross" /\ tasks[t].pc = "done"
        /\ Len(tasks[t].calls) = 2
        /\ tasks[t].calls[1].op = "update_listing"
        /\ tasks[t].calls[2].op = "create_listing"
        /\ \A x \in Platforms : tasks[t].results[x].listing # None

\* C27: a sweep selects the records flagged needs_sync when it starts and
\* makes its sync attempts for them one by one, in order: the k-th adapter
\* call is the push of the k-th selected record, no other call is made, and
\* when the sweep is over every selected record has had its attempt, whatever
\* the attempts before it came to.
C27_OneAttemptPerFlagged ==
    /\ [][\A t \in Tasks :
             (tasks[t].pc = "idle" /\ tasks'[t].op = "all") =>
                tasks'[t].selected =
                    SortedSeq({i \in ListingIds : listings[i].needs_sync})]_vars
    /\ [](\A t \in Tasks :
             tasks[t].op = "all" =>
                LET n == Len(tasks[t].calls)
                    sel == tasks[t].selected
                IN /\ n <= Len(sel)
                   /\ \A k \in 1..n :
                         /\ tasks[t].calls[k].pid = listings[sel[k]].product_id
                         /\ tasks[t].calls[k].platform = listings[sel[k]].platform
                         /\ tasks[t].calls[k].op \in {"update_listing", "create_listing"}
                   /\ tasks[t].pc = "sync_await" => tasks[t].existing = sel[n]
                   /\ tasks[t].pc = "done" => n = Len(sel))

\* a sweep over two flagged records is over: the push of the first failed
\* (the record is still flagged and carries the error) and the push of the
\* second was made all the same and succeeded
C27_Witness ==
    \E t \in Tasks :
        /\ tasks[t].op = "all" /\ tasks[t].pc = "done"
        /\ Len(tasks[t].selected) = 2 /\ Len(tasks[t].calls) = 2
        /\ listings[tasks[t].selected[1]].needs_sync
        /\ listings[tasks[t].selected[1]].sync_error # NoError
        /\ Synced(listings[tasks[t].selected[2]])

\* the changes of platform_status the lifecycle of a listing record allows
StatusTransitions ==
    {<<"active", "sold">>, <<"active", "deleted">>, <<"active", "error">>,
     <<"error", "active">>}

\* C28: a record is created ACTIVE and its platform_status changes only along
\* ACTIVE -> SOLD, ACTIVE -> DELETED, ACTIVE -> ERROR, ERROR -> ACTIVE; no
\* adapter call pushes to or marks a record that is SOLD or DELETED.
C28_SoldIsTerminal ==
    /\ [][\A i \in 1..Len(listings') :
             IF i \in ListingIds
             THEN listings'[i].platform_status # listings[i].platform_status
                     => <<listings[i].platform_status,
                          listings'[i].platform_status>> \in StatusTransitions
             ELSE listings'[i].platform_status = "active"]_vars
    /\ [](\A t \in Tasks :
             /\ (tasks[t].pc = "sync_await" /\ tasks[t].existing # None)
                   => listings[tasks[t].existing].platform_status
                         \notin {"sold", "deleted"}
             /\ tasks[t].pc = "mark_await"
                   => listings[Head(tasks[t].mrows)].platform_status
                         \notin {"sold", "deleted"})

\* C29: when check_listing_status answers "deleted" for the ACTIVE record a
\* check_for_sold_items sweep is polling, the record's platform_status
\* becomes DELETED.
C29_DeletedRecorded ==
    [][\A t \in Tasks :
          (/\ tasks[t].pc = "check_await"
           /\ \E date \in Dates, sheet \in SheetOutcomes :
                 await_check_listing_status(t, "deleted", date, sheet))
          => listings'[Head(tasks[t].rows)].platform_status = "deleted"]_vars

\* the sales of product p stored with an id above n
SalesSince(p, n) == {i \in SaleIds : i > n /\ sales[i].product_id = p}

\* C30: when two requests in flight together (two check_for_sold_items
\* sweeps, or a sweep and a mark-sold request) have both recorded product p
\* as sold, one sale of p has been created since the first of them began.
C30_OneSalePerSale ==
    \A t1, t2 \in Tasks : \A p \in ProductIds :
        (/\ t1 # t2
         /\ tasks[t1].op = "check" /\ tasks[t2].op \in {"check", "mark"}
         /\ \A t \in {t1, t2} :
               /\ tasks[t].pc = "done"
               /\ \E k \in 1..Len(tasks[t].calls) :
                     /\ tasks[t].calls[k].op = "mark_product_as_sold"
                     /\ tasks[t].calls[k].pid = p)
        => Cardinality(SalesSince(p, Min({tasks[t1].sales0, tasks[t2].sales0}))) = 1

\* C31: at every moment every service, and so every adapter instance, has at
\* most one adapter operation (close included) in progress, however many
\* requests are in flight, and it is the one its request is waiting for.
C31_OneCallPerAdapter ==
    \A t \in Tasks :
        /\ Len(tasks[t].inflight) <= 1
        /\ Len(tasks[t].inflight) = 1
              <=> tasks[t].pc \in {"sync_await", "mark_await", "check_await",
                                   "import_await", "close_await", "auth_await",
                                   "op_await"}

\* two cross-posts are in flight together, each waiting for the vinted
\* adapter of its own service
C31_Witness ==
    \E t1, t2 \in Tasks :
        /\ t1 # t2
        /\ tasks[t1].op = "cross" /\ tasks[t2].op = "cross"
        /\ tasks[t1].inflight = <<"vinted">> /\ tasks[t2].inflight = <<"vinted">>

\* C32: no two listing records carry the same platform and the same external
\* id (no id counting as one), whatever the lists the imports were given.
C32_UniqueExternalId ==
    \A i, j \in ListingIds :
        (/\ listings[i] # NoRow
         /\ listings[i].platform = listings[j].platform
         /\ listings[i].platform_listing_id = listings[j].platform_listing_id)
        => i = j

\* an import is over whose list carried the same external id twice, or two
\* summaries without an id: one record was made of the two
C32_Witness ==
    \E t \in Tasks :
        /\ tasks[t].op = "import" /\ tasks[t].pc = "done"
        /\ Len(tasks[t].fetched) = 2
        /\ tasks[t].fetched[1].id = tasks[t].fetched[2].id
        /\ Len(tasks[t].imported) = 1
        /\ Cardinality({i \in ListingIds :
                           /\ listings[i].platform = tasks[t].plat
                           /\ listings[i].platform_listing_id
                                 = tasks[t].fetched[1].id}) = 1

\* C33: under FairExport every sale that is stored with synced_to_sheets =
\* FALSE (its export returned no row) has synced_to_sheets = TRUE later on.
C33_FailedExportRetried ==
    \A k \in 1..(MaxProducts + MaxRequests) :
        (k \in SaleIds /\ ~sales[k].synced_to_sheets)
        ~> (k \in SaleIds /\ sales[k].synced_to_sheets)

\* C34: a step in which mark_product_as_sold gets to its export and add_sale
\* returns no row number or raises stores exactly one more sale, not marked
\* as exported and with no row, leaves the sales stored before as they were
\* and the product of the sale SOLD, and mark_product_as_sold returns True:
\* the endpoint's task ends with ok, the poll reports the product.
C34_ExportFailureKeepsSale ==
    [][\A t \in Tasks :
          (/\ tasks[t].pc \in {"idle", "mark_await", "check_await"}
           /\ tasks'[t].op \in {"mark", "check"}
           /\ tasks'[t] # tasks[t]
           /\ \E sheet \in {"lost", "none"} :
               \/ /\ \E p \in ProductIds, x \in Platforms,
                        sale_price \in Prices \cup {None}, date \in Dates :
                          mark_product_sold(t, p, x, sale_price, date, sheet, 1)
                  /\ tasks'[t].pc = "done"
               \/ /\ \E outcome \in PushOutcomes : await_mark_as_sold(t, outcome, sheet)
                  /\ tasks'[t].pc # "mark_await"
               \/ /\ \E date \in Dates :
                          await_check_listing_status(t, "sold", date, sheet)
                  /\ tasks'[t].pc # "mark_await")
          => LET n == Len(sales) + 1
             IN /\ Len(sales') = n
                /\ \A k \in SaleIds : sales'[k] = sales[k]
                /\ ~sales'[n].synced_to_sheets
                /\ sales'[n].sheets_row_number = None
                /\ sales'[n].net_profit = sales'[n].sale_price
                /\ products'[sales'[n].product_id].status = "sold"
                /\ tasks'[t].op = "mark" =>
                      tasks'[t].pc = "done" /\ tasks'[t].ok = TRUE
                /\ tasks'[t].op = "check" =>
                      /\ tasks'[t].sold_items # <<>>
                      /\ tasks'[t].sold_items[Len(tasks'[t].sold_items)]
                            = sales'[n].product_id]_vars

\* mark_product_as_sold has returned True to its endpoint and the sale it
\* stored is not exported, its product SOLD
C34_Witness ==
    \E t \in Tasks :
        /\ tasks[t].op = "mark" /\ tasks[t].pc = "done" /\ tasks[t].ok = TRUE
        /\ Len(sales) = tasks[t].sales0 + 1
        /\ ~sales[Len(sales)].synced_to_sheets
        /\ sales[Len(sales)].product_id = tasks[t].pid
        /\ products[tasks[t].pid].status = "sold"

\* C35: no step changes the product, platform, price, date, fees or net
\* profit of a stored sale or takes a sale away; synced_to_sheets and
\* sheets_row_number are the only fields that change, synced_to_sheets from
\* FALSE to TRUE only, and the row number of an exported sale stays.
C35_SaleImmutable ==
    [][/\ Len(sales') >= Len(sales)
       /\ \A k \in SaleIds :
             /\ [sales'[k] EXCEPT !.synced_to_sheets = FALSE, !.sheets_row_number = None]
                  = [sales[k] EXCEPT !.synced_to_sheets = FALSE, !.sheets_row_number = None]
             /\ sales[k].synced_to_sheets =>
                   /\ sales'[k].synced_to_sheets
                   /\ sales'[k].sheets_row_number = sales[k].sheets_row_number]_vars

\* a sale that was stored unexported, then exported and marked with its row,
\* next to a stored sale that is not exported
C35_Witness ==
    \E t \in Tasks :
        /\ tasks[t].op = "mark" /\ tasks[t].pc = "done"
        /\ tasks[t].sale_id \in SaleIds
        /\ sales[tasks[t].sale_id].synced_to_sheets
        /\ sales[tasks[t].sale_id].sheets_row_number # None
        /\ \E k \in SaleIds : ~sales[k].synced_to_sheets

\* C36: the sale a poll (check_for_sold_items) stores carries the price its
\* product has at that moment and no shipping cost, platform fee or payment
\* fee; and every stored sale has net_profit = sale_price - shipping_cost -
\* platform_fee - payment_fee - original_cost, the original cost being the 0
\* that mark_product_as_sold passes when sale_data names none.
C36_DiscoveredSalePrice ==
    /\ [](\A k \in SaleIds :
            sales[k].net_profit = sales[k].sale_price - sales[k].shipping_cost
                                  - sales[k].platform_fee - sales[k].payment_fee - 0)
    /\ [][\A t \in Tasks :
            (tasks[t].op = "check" /\ Len(sales') > Len(sales))
            => LET n == Len(sales')
               IN /\ n = Len(sales) + 1
                  /\ sales'[n].product_id = tasks[t].pid
                  /\ sales'[n].sale_price = products[tasks[t].pid].price
                  /\ sales'[n].sale_price = products'[tasks[t].pid].price
                  /\ sales'[n].shipping_cost = 0
                  /\ sales'[n].platform_fee = 0
                  /\ sales'[n].payment_fee = 0]_vars

\* a poll has stored the sale of the second product at its price, which is
\* not the price of the first product
C36_Witness ==
    \E t \in Tasks :
        /\ tasks[t].op = "check" /\ tasks[t].pc = "done"
        /\ Len(sales) = tasks[t].sales0 + 1
        /\ LET sale == sales[Len(sales)]
           IN /\ sale.product_id = 2
              /\ sale.sale_price = products[2].price
              /\ sale.sale_price # products[1].price
              /\ sale.net_profit = sale.sale_price

\* C37: create_listing or update_listing is never called for a product whose
\* status is SOLD, and no listing record of a SOLD product that a sync has
\* returned from is ACTIVE.
C37_SoldNeverPushed ==
    \A t \in Tasks :
        /\ tasks[t].pc = "sync_await" => products[tasks[t].pid].status # "sold"
        /\ (tasks[t].op = "sync" /\ tasks[t].pc = "done") =>
              \A i \in RowsOf(tasks[t].pid, tasks[t].plat) :
                  products[tasks[t].pid].status = "sold"
                  => listings[i].platform_status # "active"

\* C38: when import_from_platform has returned, every product of the list
\* it returned is stored with its listing record on the platform; after an
\* import that raised and was rolled back the list is empty.
C38_ReturnedIsPersisted ==
    \A t \in Tasks :
        (tasks[t].op = "import" /\ tasks[t].pc = "done")
        => /\ \A k \in 1..Len(tasks[t].imported) :
                 /\ tasks[t].imported[k] \in ProductIds
                 /\ \E i \in ListingIds :
                       /\ listings[i].product_id = tasks[t].imported[k]
                       /\ listings[i].platform = tasks[t].plat
           /\ tasks[t].rolled_back => tasks[t].imported = <<>>

\* C39: in every state the platform_status of every listing record is ACTIVE
\* or SOLD (never ERROR, DELETED or PENDING), and a step in which a push
\* fails (create_listing or update_listing returns its failure value or
\* raises) leaves the platform_status of every record as it was.
C39_StatusActiveOrSold ==
    /\ [](\A i \in ListingIds : listings[i].platform_status \in {"active", "sold"})
    /\ [][\A t \in Tasks :
            (/\ tasks[t].pc = "sync_await"
             /\ \E outcome \in {"fail", "raise"} : await_push(t, outcome))
            => /\ Len(listings') = Len(listings)
               /\ \A i \in ListingIds :
                     listings'[i].platform_status = listings[i].platform_status]_vars

\* the push of a record failed and the record is ACTIVE with its error
\* stored, next to a record that is SOLD
C39_Witness ==
    /\ \E i \in ListingIds :
          listings[i].sync_error # NoError /\ listings[i].platform_status = "active"
    /\ \E i \in ListingIds : listings[i].platform_status = "sold"

\* C40: in every state a browser-backed adapter with is_authenticated = TRUE
\* holds a browser and a page; so an operation called after close() does not
\* return before it has authenticated again.
C40_AuthenticatedHoldsPage ==
    \A t \in Tasks :
        /\ \A x \in BrowserPlatforms :
              x \in tasks[t].is_authenticated
              => x \in tasks[t].browser /\ x \in tasks[t].page
        /\ (tasks[t].aop \in AdapterOps /\ tasks[t].pc = "ready"
               /\ tasks[t].aplat \in BrowserPlatforms
               /\ ~(tasks[t].aplat = "facebook_marketplace" /\ tasks[t].aop = "get_sales"))
            => tasks[t].auth # "" \/ tasks[t].aplat \in tasks[t].page
====
